---- MODULE Spec2Model ----
(***************************************************************************)
(* A model of the l2net library: the Ethernet II / 802.1Q frame codec      *)
(* (frame.cpp, vlan.cpp), the TCP MAC handshake and the hybrid session     *)
(* (hybrid_chat.cpp) over the raw and stream sockets (raw_socket.cpp).     *)
(*                                                                         *)
(* Three specifications share the variables:                               *)
(*   SpecCodec      the builders and the parser, as pure functions applied *)
(*                  to inputs drawn from bounded sets;                     *)
(*   SpecHandshake  handshake::run_server against handshake::run_client,   *)
(*                  wrapped by the create_server / create_client factories;*)
(*   SpecSession    the life cycle of hybrid_endpoint objects, their       *)
(*                  receiver worker threads and a send_loop thread.        *)
(***************************************************************************)
EXTENDS Integers, Sequences, FiniteSets, TLC

VARIABLES
    little_endian,  \* byte order of the host the library was built for
    c_op,           \* codec: the last builder operation applied
    c_in,           \* codec: the inputs given to that operation
    c_out,          \* codec: the result<std::vector<uint8_t>> it returned
    parser,         \* codec: the frame_parser object (data_, valid_, has_vlan_tag_)
    c_parsed,       \* codec: TRUE once parser was constructed over c_out's bytes
    h_pc,           \* handshake: position of each role in its factory / run_* function
    h_mac,          \* handshake: iface.mac() of each role
    h_chan,         \* handshake: octets in flight on the stream, per direction
    h_res,          \* handshake: result<mac_address> of run_server / run_client
    h_io,           \* handshake: which of send / receive of the role have completed
    f_raw,          \* factory: outcome of raw_socket::create in the factory
    f_res,          \* factory: result<hybrid_endpoint> returned to the caller
    d_io,           \* data plane: the session's socket has sent / received
    f_sock,         \* factory: the raw_socket handed to the session
    obj,            \* session: the hybrid_endpoint objects (data_socket_.fd_, running_)
    w_pc,           \* session: position of the worker thread spawned on each object
    cpc,            \* session: the operation the caller's thread is executing
    sl,             \* session: position of the thread executing send_loop
    fd_open,        \* session: the raw descriptor is open
    queue,          \* session: frames that arrived on the descriptor, not yet read
    crashed,        \* session: std::terminate was called
    ev,             \* session: what the last step returned or observed
    hd_class,       \* handles: the class of the two handles (raw_socket or tcp_socket)
    hd,             \* handles: the handle objects (fd_, bound_interface_.has_value())
    k_closes,       \* handles: number of ::close calls on each descriptor
    k_next,         \* handles: the next descriptor the OS hands out
    hd_ret,         \* handles: the last operation called on a raw_socket and its error code
    px,             \* parser: the frame_parser under test (data_, valid_, has_vlan_tag_)
    px_ret,         \* parser: the latest parse call: its return value, what it read
    px_acc,         \* parser: the latest accessor call: its value, what it read
    b_call,         \* builder: the entry point called and its inputs
    b_buf,          \* builder: the caller's buffer before and after the call
    b_res,          \* builder: the result of the call
    sd_call,        \* send: the session's configuration and MACs, the payload given
    sd_wire,        \* send: the frames handed to ::sendto
    sd_res,         \* send: the error code send_data returned
    cn,             \* connect: the call of tcp_socket::connect in progress
    lib,            \* library: the function called on its own, its argument and result
    nd,             \* remote_node: the process running one of its four loops
    ac,             \* run_server: the server's wait in accept, the time it has waited
    bo,             \* benchmark_orchestrator: position in run(), the remote host's files
    rx              \* receiver: frames arrived, frames the worker read, callback invocations

codec_vars == <<little_endian, c_op, c_in, c_out, parser, c_parsed>>
hs_vars == <<h_pc, h_mac, h_chan, h_res, h_io, f_raw, f_res, d_io, f_sock>>
sd_vars == <<sd_call, sd_wire, sd_res>>
bd_vars == <<b_call, b_buf, b_res>>
px_vars == <<px, px_ret, px_acc>>
hd_vars == <<hd_class, hd, k_closes, k_next, hd_ret>>
ss_vars == <<obj, w_pc, cpc, sl, fd_open, queue, crashed, ev>>
rx_vars == <<rx>>
cn_vars == <<cn>>
lb_vars == <<lib>>
nd_vars == <<nd>>
ac_vars == <<ac>>
bo_vars == <<bo>>

(***************************************************************************)
(* Bounds of the model.                                                    *)
(***************************************************************************)
MaxPayload == 2
MaxQueue == 1
MaxFds == 2
MaxRange == 19
MaxFrames == 3
MaxTimeout == 3
MaxClock == 5
MaxSizes == 2
MaxObs == 4
MaxCount == 2
MaxWait == 2
MaxRetries == 3

(***************************************************************************)
(* constants (common.hpp)                                                  *)
(***************************************************************************)
eth_header_size == 14
vlan_header_size == 4
mtu_eth_header_size == 14
vlan_tag_size == 4
eth_vlan_header_size == eth_header_size + vlan_header_size
eth_p_8021q == 33024
eth_p_custom == 34997
max_vlan_id == 4095
max_priority == 7

(***************************************************************************)
(* Input domains: a few MAC addresses, ethertypes, TCI fields and payload  *)
(* octets.  The ethertypes include values whose two octets differ, the     *)
(* 802.1Q TPID and its octet-swapped image.                                *)
(***************************************************************************)
NullMac == <<0, 0, 0, 0, 0, 0>>
BroadcastMac == <<255, 255, 255, 255, 255, 255>>
MacA == <<170, 187, 204, 221, 238, 255>>
MacB == <<17, 34, 51, 68, 85, 102>>
Macs == {NullMac, BroadcastMac, MacA}
EtherTypes == {2048, eth_p_custom, eth_p_8021q, 129}
Priorities == {0, 7, 8}
VlanIds == {0, 10, 4095, 4096}
PayloadOctets == {0, 84}

SeqsUpTo(S, n) == UNION {[1..k -> S] : k \in 0..n}
Payloads == SeqsUpTo(PayloadOctets, MaxPayload)

Zeros(n) == [i \in 1..n |-> 0]

\* std::copy of bytes into buffer at (0-based) offset off
CopyInto(buffer, off, bytes) ==
    [i \in 1..Len(buffer) |->
        IF i > off /\ i <= off + Len(bytes) THEN bytes[i - off] ELSE buffer[i]]

(***************************************************************************)
(* htons: identity on a big-endian host, octet swap on a little-endian one *)
(***************************************************************************)
Swap16(x) == (x % 256) * 256 + (x \div 256)

htons(x) == IF little_endian THEN Swap16(x) ELSE x

\* the two octets a builder stores for a 16-bit field:
\*   buffer[k] = static_cast<uint8_t>(v >> 8); buffer[k+1] = static_cast<uint8_t>(v & 0xFF)
\* where v = htons(field)
StoreU16(field) == <<(htons(field) \div 256) % 256, htons(field) % 256>>

(***************************************************************************)
(* vlan_tci (vlan.hpp)                                                     *)
(***************************************************************************)
vlan_tci_is_valid(tci) == tci.priority <= max_priority /\ tci.vlan_id <= max_vlan_id

vlan_tci_encode(tci) ==
    (tci.priority * 8192 + (IF tci.dei THEN 4096 ELSE 0) + (tci.vlan_id % 4096)) % 65536

(***************************************************************************)
(* frame_builder (frame.cpp)                                               *)
(***************************************************************************)
Ok(bytes) == [ok |-> TRUE, err |-> "success", bytes |-> bytes]
Err(e) == [ok |-> FALSE, err |-> e, bytes |-> <<>>]

\* build_into without the capacity check: it writes what fits
build_into_unchecked(dst, src, et, pl, buffer) ==
    [ok |-> TRUE, err |-> "success",
     buffer |-> CopyInto(CopyInto(CopyInto(CopyInto(buffer, 0, dst), 6, src),
                                  12, StoreU16(et)),
                         eth_header_size, pl),
     n |-> eth_header_size + Len(pl)]

\* build_into: the buffer after the call and the result<size_t>
frame_builder_build_into(dst, src, et, pl, buffer) ==
    IF Len(buffer) < eth_header_size + Len(pl)
    THEN [ok |-> FALSE, err |-> "buffer_too_small", buffer |-> buffer, n |-> 0]
    ELSE [ok |-> TRUE, err |-> "success",
          buffer |-> CopyInto(CopyInto(CopyInto(CopyInto(buffer, 0, dst), 6, src),
                                       12, StoreU16(et)),
                              eth_header_size, pl),
          n |-> eth_header_size + Len(pl)]

frame_builder_build(dst, src, et, pl) ==
    LET total_size == eth_header_size + Len(pl)
        written == frame_builder_build_into(dst, src, et, pl, Zeros(total_size))
    IN  IF total_size < eth_header_size THEN Err("invalid_frame_size")
        ELSE IF ~written.ok THEN Err(written.err)
        ELSE Ok(written.buffer)

build_simple_frame(dst, src, et, pl) == frame_builder_build(dst, src, et, pl)

(***************************************************************************)
(* vlan_frame_builder (vlan.cpp)                                           *)
(***************************************************************************)
\* validate without its checks
validate_accepts_all(tci) == "success"

vlan_frame_builder_validate(tci) ==
    IF ~vlan_tci_is_valid(tci) /\ tci.vlan_id > max_vlan_id THEN "invalid_vlan_id"
    ELSE IF ~vlan_tci_is_valid(tci) /\ tci.priority > max_priority THEN "invalid_priority"
    ELSE "success"

vlan_frame_builder_build_into(dst, src, tci, et, pl, buffer) ==
    IF vlan_frame_builder_validate(tci) # "success"
    THEN [ok |-> FALSE, err |-> vlan_frame_builder_validate(tci), buffer |-> buffer, n |-> 0]
    ELSE IF Len(buffer) < eth_vlan_header_size + Len(pl)
    THEN [ok |-> FALSE, err |-> "buffer_too_small", buffer |-> buffer, n |-> 0]
    ELSE [ok |-> TRUE, err |-> "success",
          buffer |-> CopyInto(CopyInto(CopyInto(CopyInto(CopyInto(CopyInto(buffer,
                        0, dst), 6, src),
                        12, StoreU16(eth_p_8021q)),
                        14, StoreU16(vlan_tci_encode(tci))),
                        16, StoreU16(et)),
                        eth_vlan_header_size, pl),
          n |-> eth_vlan_header_size + Len(pl)]

vlan_frame_builder_build(dst, src, tci, et, pl) ==
    LET written == vlan_frame_builder_build_into(dst, src, tci, et, pl,
                        Zeros(eth_vlan_header_size + Len(pl)))
    IN  IF vlan_frame_builder_validate(tci) # "success"
        THEN Err(vlan_frame_builder_validate(tci))
        ELSE IF ~written.ok THEN Err(written.err)
        ELSE Ok(written.buffer)

build_vlan_frame(dst, src, tci, et, pl) == vlan_frame_builder_build(dst, src, tci, et, pl)

(***************************************************************************)
(* frame_parser (frame.cpp, frame.hpp)                                     *)
(***************************************************************************)
U16At(data, off) == data[off + 1] * 256 + data[off + 2]

frame_parser_default == [data |-> <<>>, valid |-> FALSE, has_vlan_tag |-> FALSE]

frame_parser_parse(data) ==
    IF Len(data) < eth_header_size
    THEN [data |-> data, valid |-> FALSE, has_vlan_tag |-> FALSE]
    ELSE IF U16At(data, 12) = eth_p_8021q
    THEN [data |-> data, valid |-> Len(data) >= eth_vlan_header_size, has_vlan_tag |-> TRUE]
    ELSE [data |-> data, valid |-> TRUE, has_vlan_tag |-> FALSE]

is_valid(p) == p.valid
has_vlan(p) == p.has_vlan_tag
header_size(p) == IF p.has_vlan_tag THEN eth_vlan_header_size ELSE eth_header_size

dest_mac(p) ==
    IF ~p.valid \/ Len(p.data) < 6 THEN NullMac ELSE SubSeq(p.data, 1, 6)

src_mac(p) ==
    IF ~p.valid \/ Len(p.data) < 12 THEN NullMac ELSE SubSeq(p.data, 7, 12)

ether_type(p) ==
    IF ~p.valid THEN 0
    ELSE IF p.has_vlan_tag
    THEN (IF Len(p.data) < 18 THEN 0 ELSE U16At(p.data, 16))
    ELSE U16At(p.data, 12)

\* vlan_id without the valid_ test
vlan_id_unchecked(p) ==
    IF ~p.has_vlan_tag \/ Len(p.data) < 16 THEN 0 ELSE U16At(p.data, 14) % 4096

vlan_id(p) ==
    IF ~p.valid \/ ~p.has_vlan_tag \/ Len(p.data) < 16 THEN 0
    ELSE U16At(p.data, 14) % 4096

vlan_priority(p) ==
    IF ~p.valid \/ ~p.has_vlan_tag \/ Len(p.data) < 16 THEN 0
    ELSE (U16At(p.data, 14) \div 8192) % 8

payload(p) ==
    IF ~p.valid THEN <<>>
    ELSE IF Len(p.data) <= header_size(p) THEN <<>>
    ELSE SubSeq(p.data, header_size(p) + 1, Len(p.data))

(***************************************************************************)
(* SpecCodec: builders applied to every input of the domains, on a host of *)
(* either byte order, and a parser constructed over the bytes returned.    *)
(***************************************************************************)
NoTci == [priority |-> 0, dei |-> FALSE, vlan_id |-> 0]

CodecIdle ==
    /\ c_op = "none"
    /\ c_in = [dst |-> NullMac, src |-> NullMac, et |-> 0, tci |-> NoTci, pl |-> <<>>]
    /\ c_out = Err("success")
    /\ parser = frame_parser_default
    /\ c_parsed = FALSE

\* build_simple_frame(dst, src, et, pl)
Build ==
    \E dst \in Macs, src \in Macs, et \in EtherTypes, pl \in Payloads :
        /\ c_op = "none"
        /\ c_op' = "build"
        /\ c_in' = [dst |-> dst, src |-> src, et |-> et, tci |-> NoTci, pl |-> pl]
        /\ c_out' = build_simple_frame(dst, src, et, pl)
        /\ parser' = frame_parser_default
        /\ c_parsed' = FALSE
        /\ UNCHANGED little_endian

\* build_vlan_frame(dst, src, tci, et, pl)
BuildVlan ==
    \E dst \in Macs, src \in Macs, pr \in Priorities, dei \in BOOLEAN,
       vid \in VlanIds, et \in EtherTypes, pl \in Payloads :
        LET tci == [priority |-> pr, dei |-> dei, vlan_id |-> vid] IN
        /\ c_op = "none"
        /\ c_op' = "build_vlan"
        /\ c_in' = [dst |-> dst, src |-> src, et |-> et, tci |-> tci, pl |-> pl]
        /\ c_out' = build_vlan_frame(dst, src, tci, et, pl)
        /\ parser' = frame_parser_default
        /\ c_parsed' = FALSE
        /\ UNCHANGED little_endian

\* frame_parser parser{*frame}
ParseBuilt ==
    /\ c_op # "none"
    /\ c_out.ok
    /\ ~c_parsed
    /\ parser' = frame_parser_parse(c_out.bytes)
    /\ c_parsed' = TRUE
    /\ UNCHANGED <<little_endian, c_op, c_in, c_out>>

(***************************************************************************)
(* The stream socket (tcp_socket, raw_socket.cpp) as the handshake uses    *)
(* it.  A stream carries octets in order; ::send accepts between 1 and all *)
(* of the octets offered, ::recv returns between 1 and all of the octets   *)
(* that have arrived (at most the buffer's 6), or 0 once the peer has      *)
(* closed and nothing is left.  Either call may fail.                      *)
(***************************************************************************)
Roles == {"server", "client"}
Peer(r) == IF r = "server" THEN "client" ELSE "server"
mac_address_size == 6
HsMacs == {NullMac, MacA, MacB}

NoResult == [state |-> "none", mac |-> NullMac, err |-> "success"]
Value(m) == [state |-> "value", mac |-> m, err |-> "success"]
Unexpected(e) == [state |-> "error", mac |-> NullMac, err |-> e]

\* the role has left run_server / run_client: its stream sockets are closed
Returned(r) == h_pc[r] \in {"hs_done", "raw", "done"}

\* the stream on which role r receives
InChan(r) == IF r = "server" THEN "c2s" ELSE "s2c"
OutChan(r) == IF r = "server" THEN "s2c" ELSE "c2s"

\* mac_address::storage_type peer_bytes{} after ::recv stored n octets
peer_bytes(r, n) == CopyInto(Zeros(mac_address_size), 0, SubSeq(h_chan[InChan(r)], 1, n))

\* if (*recv_result != mac_address::size) return handshake_failed;
\* return mac_address{peer_bytes};
short_read_accepted(r, n) == Value(peer_bytes(r, n))

\* the length check with "== 0" in place of "!= mac_address::size"
only_eof_rejected(r, n) ==
    IF n = 0 THEN Unexpected("handshake_failed") ELSE Value(peer_bytes(r, n))

handshake_received(r, n) ==
    IF n # mac_address_size THEN Unexpected("handshake_failed")
    ELSE Value(peer_bytes(r, n))

HsReturn(r, res) ==
    /\ h_res' = [h_res EXCEPT ![r] = res]
    /\ h_pc' = [h_pc EXCEPT ![r] = "hs_done"]

\* ---- handshake::run_server ----
\* tcp_socket::create_server(port)
SrvListen ==
    /\ h_pc["server"] = "create"
    /\ h_pc' = [h_pc EXCEPT !["server"] = "accept"]
    /\ UNCHANGED <<h_mac, h_chan, h_res, h_io, f_raw, f_res, d_io, f_sock>>

SrvListenFail ==
    /\ h_pc["server"] = "create"
    /\ \E e \in {"socket_creation_failed", "socket_bind_failed"} :
            HsReturn("server", Unexpected(e))
    /\ UNCHANGED <<h_mac, h_chan, h_io, f_raw, f_res, d_io, f_sock>>

\* a server that receives the peer's MAC before it sends its own
server_receives_first == "recv"

\* run_server after accept: "// send our mac" comes before "// receive peer mac"
server_after_accept == "send"

\* server_result->accept(): blocks until the client's connection is there
SrvAccept ==
    /\ h_pc["server"] = "accept"
    /\ h_pc["client"] \in {"recv", "send"} \/ (Returned("client") /\ h_io["client"].connected)
    /\ h_pc' = [h_pc EXCEPT !["server"] = server_after_accept]
    /\ h_io' = [h_io EXCEPT !["server"].connected = TRUE]
    /\ UNCHANGED <<h_mac, h_chan, h_res, f_raw, f_res, d_io, f_sock>>

SrvAcceptFail ==
    /\ h_pc["server"] = "accept"
    /\ HsReturn("server", Unexpected("connection_failed"))
    /\ UNCHANGED <<h_mac, h_chan, h_io, f_raw, f_res, d_io, f_sock>>

\* client_result->send(local_mac.as_span()); the count sent is not examined
SrvSend ==
    /\ h_pc["server"] = "send"
    /\ \E n \in 1..mac_address_size :
            h_chan' = [h_chan EXCEPT !["s2c"] = @ \o SubSeq(h_mac["server"], 1, n)]
    /\ h_pc' = [h_pc EXCEPT !["server"] = "recv"]
    /\ h_io' = [h_io EXCEPT !["server"].sent = TRUE]
    /\ UNCHANGED <<h_mac, h_res, f_raw, f_res, d_io, f_sock>>

SrvSendFail ==
    /\ h_pc["server"] = "send"
    /\ HsReturn("server", Unexpected("socket_send_failed"))
    /\ UNCHANGED <<h_mac, h_chan, h_io, f_raw, f_res, d_io, f_sock>>

\* client_result->receive(peer_bytes) and the length check
SrvRecv ==
    /\ h_pc["server"] = "recv"
    /\ \E n \in 1..mac_address_size :
        /\ n <= Len(h_chan["c2s"])
        /\ HsReturn("server", handshake_received("server", n))
        /\ h_chan' = [h_chan EXCEPT !["c2s"] = SubSeq(@, n + 1, Len(@))]
        /\ h_io' = [h_io EXCEPT !["server"].rcvd = (n = mac_address_size),
                                !["server"].octets = n]
    /\ UNCHANGED <<h_mac, f_raw, f_res, d_io, f_sock>>

\* ::recv returns 0: the client closed its end and nothing is left to read
SrvRecvEof ==
    /\ h_pc["server"] = "recv"
    /\ h_chan["c2s"] = <<>>
    /\ Returned("client")
    /\ HsReturn("server", handshake_received("server", 0))
    /\ h_io' = [h_io EXCEPT !["server"].octets = 0]
    /\ UNCHANGED <<h_mac, h_chan, f_raw, f_res, d_io, f_sock>>

SrvRecvFail ==
    /\ h_pc["server"] = "recv"
    /\ HsReturn("server", Unexpected("socket_recv_failed"))
    /\ UNCHANGED <<h_mac, h_chan, h_io, f_raw, f_res, d_io, f_sock>>

\* ---- handshake::run_client ----
\* tcp_socket::connect(ip, port, timeout): an attempt succeeds while the
\* server listens
CliConnect ==
    /\ h_pc["client"] = "connect"
    /\ h_pc["server"] = "accept"
    /\ h_pc' = [h_pc EXCEPT !["client"] = "recv"]
    /\ h_io' = [h_io EXCEPT !["client"].connected = TRUE]
    /\ UNCHANGED <<h_mac, h_chan, h_res, f_raw, f_res, d_io, f_sock>>

\* socket(), inet_pton() failed or the deadline passed
CliConnectFail ==
    /\ h_pc["client"] = "connect"
    /\ \E e \in {"socket_creation_failed", "connection_failed"} :
            HsReturn("client", Unexpected(e))
    /\ UNCHANGED <<h_mac, h_chan, h_io, f_raw, f_res, d_io, f_sock>>

\* conn_result->receive(peer_bytes) and the length check
CliRecv ==
    /\ h_pc["client"] = "recv"
    /\ \E n \in 1..mac_address_size :
        /\ n <= Len(h_chan["s2c"])
        /\ IF handshake_received("client", n).state = "value"
           THEN /\ h_pc' = [h_pc EXCEPT !["client"] = "send"]
                /\ h_res' = [h_res EXCEPT !["client"] = handshake_received("client", n)]
           ELSE HsReturn("client", handshake_received("client", n))
        /\ h_chan' = [h_chan EXCEPT !["s2c"] = SubSeq(@, n + 1, Len(@))]
        /\ h_io' = [h_io EXCEPT !["client"].rcvd = (n = mac_address_size),
                                !["client"].octets = n]
    /\ UNCHANGED <<h_mac, f_raw, f_res, d_io, f_sock>>

CliRecvEof ==
    /\ h_pc["client"] = "recv"
    /\ h_chan["s2c"] = <<>>
    /\ Returned("server")
    /\ HsReturn("client", handshake_received("client", 0))
    /\ h_io' = [h_io EXCEPT !["client"].octets = 0]
    /\ UNCHANGED <<h_mac, h_chan, f_raw, f_res, d_io, f_sock>>

CliRecvFail ==
    /\ h_pc["client"] = "recv"
    /\ HsReturn("client", Unexpected("socket_recv_failed"))
    /\ UNCHANGED <<h_mac, h_chan, h_io, f_raw, f_res, d_io, f_sock>>

\* conn_result->send(local_mac.as_span()); return mac_address{peer_bytes}
CliSend ==
    /\ h_pc["client"] = "send"
    /\ \E n \in 1..mac_address_size :
            h_chan' = [h_chan EXCEPT !["c2s"] = @ \o SubSeq(h_mac["client"], 1, n)]
    /\ h_pc' = [h_pc EXCEPT !["client"] = "hs_done"]
    /\ h_io' = [h_io EXCEPT !["client"].sent = TRUE]
    /\ UNCHANGED <<h_mac, h_res, f_raw, f_res, d_io, f_sock>>

CliSendFail ==
    /\ h_pc["client"] = "send"
    /\ HsReturn("client", Unexpected("socket_send_failed"))
    /\ UNCHANGED <<h_mac, h_chan, h_io, f_raw, f_res, d_io, f_sock>>

(***************************************************************************)
(* hybrid_endpoint::create_server / create_client after the handshake      *)
(* returned: phase 2 opens the raw data socket and constructs the session. *)
(***************************************************************************)
\* if (!peer_result.has_value()) return std::unexpected{peer_result.error()};
proceeds_on_handshake_error(res) == TRUE

DataFd == 1
InvalidFd == -1

\* the interface name each factory is given
InterfaceOf(r) == IF r = "server" THEN "eth0" ELSE "eth1"

\* a default-constructed raw_socket: fd_{-1}, bound_interface_ empty
NoSocket == [fd |-> InvalidFd, proto |-> "none", bound_interface |-> "nullopt"]

\* raw_socket::create(proto): ::socket(AF_PACKET, SOCK_RAW, htons(proto))
\* succeeded; the raw_socket(fd) constructor leaves bound_interface_ empty
raw_socket_create(proto) ==
    [fd |-> DataFd, proto |-> proto, bound_interface |-> "nullopt"]


factory_proceeds(res) == res.state = "value"

FactoryReturnError(r) ==
    /\ h_pc[r] = "hs_done"
    /\ ~factory_proceeds(h_res[r])
    /\ f_res' = [f_res EXCEPT ![r] = [state |-> "error", err |-> h_res[r].err]]
    /\ h_pc' = [h_pc EXCEPT ![r] = "done"]
    /\ UNCHANGED <<h_mac, h_chan, h_res, h_io, f_raw, d_io, f_sock>>

FactoryPhase2(r) ==
    /\ h_pc[r] = "hs_done"
    /\ factory_proceeds(h_res[r])
    /\ h_pc' = [h_pc EXCEPT ![r] = "raw"]
    /\ UNCHANGED <<h_mac, h_chan, h_res, h_io, f_raw, f_res, d_io, f_sock>>

\* raw_socket::create(raw_socket::protocol::all) succeeded; the session is
\* constructed from the interface, the config, the peer MAC and the socket
FactoryCreateRaw(r) ==
    /\ h_pc[r] = "raw"
    /\ f_raw' = [f_raw EXCEPT ![r] = "ok"]
    /\ f_sock' = [f_sock EXCEPT ![r] = raw_socket_create("all")]
    /\ f_res' = [f_res EXCEPT ![r] = [state |-> "session", err |-> "success"]]
    /\ h_pc' = [h_pc EXCEPT ![r] = "done"]
    /\ UNCHANGED <<h_mac, h_chan, h_res, h_io, d_io>>

\* ::socket failed: EPERM / EACCES, or another errno
FactoryCreateRawFail(r) ==
    /\ h_pc[r] = "raw"
    /\ \E e \in {"permission_denied", "socket_creation_failed"} :
        /\ f_raw' = [f_raw EXCEPT ![r] = e]
        /\ f_res' = [f_res EXCEPT ![r] = [state |-> "error", err |-> e]]
    /\ h_pc' = [h_pc EXCEPT ![r] = "done"]
    /\ UNCHANGED <<h_mac, h_chan, h_res, h_io, d_io, f_sock>>

\* send_data / receive_data on the session the factory returned: the data
\* socket does I/O only when it is valid (raw_socket::send_raw, receive)
SessionSendData(r) ==
    /\ f_res[r].state = "session"
    /\ f_raw[r] = "ok"
    /\ ~d_io[r].sent
    /\ d_io' = [d_io EXCEPT ![r].sent = TRUE]
    /\ UNCHANGED <<h_pc, h_mac, h_chan, h_res, h_io, f_raw, f_res, f_sock>>

SessionReceiveData(r) ==
    /\ f_res[r].state = "session"
    /\ f_raw[r] = "ok"
    /\ ~d_io[r].rcvd
    /\ d_io' = [d_io EXCEPT ![r].rcvd = TRUE]
    /\ UNCHANGED <<h_pc, h_mac, h_chan, h_res, h_io, f_raw, f_res, f_sock>>

\* hybrid_endpoint::is_valid() of the session the factory of role r
\* returned: data_socket_.is_valid() && !peer_mac_.is_null(); peer_mac_ is
\* *peer_result and data_socket_ the socket of phase 2
hybrid_endpoint_is_valid(r) ==
    f_sock[r].fd # InvalidFd /\ h_res[r].mac # NullMac

HsIdle ==
    /\ h_pc = [r \in Roles |-> IF r = "server" THEN "create" ELSE "connect"]
    /\ h_chan = [s2c |-> <<>>, c2s |-> <<>>]
    /\ h_res = [r \in Roles |-> NoResult]
    /\ h_io = [r \in Roles |-> [connected |-> FALSE, sent |-> FALSE, rcvd |-> FALSE,
                                octets |-> -1]]
    /\ f_raw = [r \in Roles |-> "none"]
    /\ f_res = [r \in Roles |-> [state |-> "none", err |-> "success"]]
    /\ d_io = [r \in Roles |-> [sent |-> FALSE, rcvd |-> FALSE]]
    /\ f_sock = [r \in Roles |-> NoSocket]

HsInit ==
    /\ HsIdle
    /\ h_mac \in [Roles -> HsMacs]

HsStep ==
    \/ SrvListen \/ SrvListenFail \/ SrvAccept \/ SrvAcceptFail
    \/ SrvSend \/ SrvSendFail \/ SrvRecv \/ SrvRecvEof \/ SrvRecvFail
    \/ CliConnect \/ CliConnectFail \/ CliRecv \/ CliRecvEof \/ CliRecvFail
    \/ CliSend \/ CliSendFail
    \/ \E r \in Roles :
        \/ FactoryReturnError(r) \/ FactoryPhase2(r)
        \/ FactoryCreateRaw(r) \/ FactoryCreateRawFail(r)
        \/ SessionSendData(r) \/ SessionReceiveData(r)

(***************************************************************************)
(* hybrid_endpoint (hybrid_chat.hpp, hybrid_chat.cpp): objects "a" and     *)
(* "b", the caller's thread, the receiver worker thread each object may    *)
(* have spawned (it captured the object's this pointer), and a thread      *)
(* executing send_loop.  Object "a" is the session a factory returned; it  *)
(* owns the one raw descriptor of the model.  Frames arrive on the         *)
(* descriptor from the network.                                            *)
(***************************************************************************)
Objs == {"a", "b"}

\* frames the network may deliver, by name (hybrid_config: data_protocol =
\* 0x88B5, vlan_id 10, vlan_priority 7)
FrameKinds == {"tagged_data", "tagged_other", "untagged_other", "short"}

Wire(dst, src, fields, pl) == dst \o src \o fields \o pl

WireFrame(k) ==
    CASE k = "tagged_data" ->
            Wire(MacA, MacB, <<129, 0, 224, 10, 136, 181>>, <<84>>)
      [] k = "untagged_other" ->
            Wire(MacA, MacB, <<8, 0>>, <<84>>)
      [] k = "tagged_other" ->
            Wire(MacA, MacB, <<129, 0, 224, 10, 8, 0>>, <<84>>)
      [] k = "untagged_data" ->
            Wire(MacA, MacB, <<136, 181>>, <<84>>)
      [] OTHER -> Zeros(eth_header_size - 1)

config_data_protocol == eth_p_custom

NoMessage == [source |-> NullMac, priority |-> 0, vlan_id |-> 0,
              was_tagged |-> FALSE, payload |-> <<>>]

\* data_message msg filled from the parser (receive_data and receiver_loop)
message_of(p) ==
    [source |-> src_mac(p),
     priority |-> IF has_vlan(p) THEN vlan_priority(p) ELSE 0,
     vlan_id |-> IF has_vlan(p) THEN vlan_id(p) ELSE 0,
     was_tagged |-> has_vlan(p),
     payload |-> payload(p)]

\* receive_data without the protocol check
receive_data_unfiltered(data) ==
    IF ~is_valid(frame_parser_parse(data))
    THEN [state |-> "error", err |-> "invalid_frame_size", msg |-> NoMessage]
    ELSE [state |-> "message", err |-> "success",
          msg |-> message_of(frame_parser_parse(data))]

\* receive_data, after data_socket_.receive stored the frame `data`
receive_data_of(data) ==
    IF ~is_valid(frame_parser_parse(data))
    THEN [state |-> "error", err |-> "invalid_frame_size", msg |-> NoMessage]
    ELSE IF ether_type(frame_parser_parse(data)) # config_data_protocol
    THEN [state |-> "error", err |-> "invalid_frame_size", msg |-> NoMessage]
    ELSE [state |-> "message", err |-> "success",
          msg |-> message_of(frame_parser_parse(data))]

\* receiver_loop, after receive_with_timeout stored the frame `data`
receiver_loop_dispatch(data) ==
    IF ~is_valid(frame_parser_parse(data)) THEN "continue"
    ELSE IF ether_type(frame_parser_parse(data)) # config_data_protocol THEN "continue"
    ELSE "callback"

NoObject == [life |-> "none", fd |-> InvalidFd, running |-> FALSE, released |-> FALSE]
NoResultOf == [state |-> "none", err |-> "success", msg |-> NoMessage]
\* what the step that led to the state did, as its caller or a test sees it
NoEvent == [type |-> "none", o |-> "a", k |-> "none", res |-> NoResultOf,
            outcome |-> "none", running |-> FALSE, executing |-> FALSE,
            before |-> FALSE, spawned |-> FALSE]
Quiet == ev' = NoEvent
Idle == [op |-> "idle", step |-> "idle", o |-> "a", other |-> "a"]

Other(o) == IF o = "a" THEN "b" ELSE "a"
ExecutingPc(pc) == pc \in {"check", "poll", "recv", "callback"}
Executing(o) == ExecutingPc(w_pc[o])
\* recv_thread_.joinable()
Joinable(o) == w_pc[o] # "none"
CallerIdle == ~crashed /\ cpc = Idle
Live(o) == obj[o].life = "live"
\* an operation returns: is_running() and the worker's position at that
\* moment, whether a receiver was executing when it was called, whether it
\* spawned a thread
Return(op, o, before, spawned, wpc) ==
    ev' = [NoEvent EXCEPT !.type = op, !.o = o, !.running = obj[o].running,
                          !.executing = ExecutingPc(wpc), !.before = before,
                          !.spawned = spawned]

\* ---- the caller's thread ----
\* hybrid_endpoint() = default
DefaultConstruct(o) ==
    /\ CallerIdle
    /\ ~Live(o)
    /\ obj' = [obj EXCEPT ![o] = [NoObject EXCEPT !.life = "live"]]
    /\ Quiet
    /\ UNCHANGED <<w_pc, cpc, sl, fd_open, queue, crashed>>

\* start_receiver: if (running_.load()) return {}; running_.store(true);
StartReceiver(o) ==
    /\ CallerIdle
    /\ Live(o)
    /\ IF obj[o].running
       THEN /\ Return("start", o, Executing(o), FALSE, w_pc[o])
            /\ UNCHANGED <<obj, cpc>>
       ELSE /\ obj' = [obj EXCEPT ![o].running = TRUE]
            /\ cpc' = [op |-> "start", step |-> IF Executing(o) THEN "spawn_b" ELSE "spawn",
                       o |-> o, other |-> o]
            /\ Quiet
    /\ UNCHANGED <<w_pc, sl, fd_open, queue, crashed>>

\* recv_thread_ = std::thread{...}; return {};  assigning to a joinable
\* std::thread calls std::terminate
StartSpawn ==
    /\ ~crashed
    /\ cpc.op = "start"
    /\ IF Joinable(cpc.o)
       THEN /\ crashed' = TRUE
            /\ ev' = [NoEvent EXCEPT !.type = "terminate", !.o = cpc.o]
            /\ UNCHANGED w_pc
       ELSE /\ w_pc' = [w_pc EXCEPT ![cpc.o] = "check"]
            /\ Return("start", cpc.o, cpc.step = "spawn_b", TRUE, "check")
            /\ UNCHANGED crashed
    /\ cpc' = Idle
    /\ UNCHANGED <<obj, sl, fd_open, queue>>

\* stop_receiver: running_.store(false);
StopReceiver(o) ==
    /\ CallerIdle
    /\ Live(o)
    /\ obj' = [obj EXCEPT ![o].running = FALSE]
    /\ cpc' = [op |-> "stop", step |-> "join", o |-> o, other |-> o]
    /\ Quiet
    /\ UNCHANGED <<w_pc, sl, fd_open, queue, crashed>>

\* recv_thread_.joinable() is false, or join() can return
JoinEnabled(o) == ~Joinable(o) \/ w_pc[o] = "exited"

\* if (recv_thread_.joinable()) recv_thread_.join();
StopJoin ==
    /\ ~crashed
    /\ cpc.op = "stop"
    /\ JoinEnabled(cpc.o)
    /\ w_pc' = [w_pc EXCEPT ![cpc.o] = "none"]
    /\ cpc' = Idle
    /\ Return("stop", cpc.o, FALSE, FALSE, "none")
    /\ UNCHANGED <<obj, sl, fd_open, queue, crashed>>

\* ~hybrid_endpoint: stop_receiver(); then the members are destroyed
Destroy(o) ==
    /\ CallerIdle
    /\ Live(o)
    /\ sl.pc = "idle"
    /\ obj' = [obj EXCEPT ![o].running = FALSE]
    /\ cpc' = [op |-> "dtor", step |-> "join", o |-> o, other |-> o]
    /\ Quiet
    /\ UNCHANGED <<w_pc, sl, fd_open, queue, crashed>>

\* the join of stop_receiver, then ~raw_socket closes the descriptor
DestroyJoin ==
    /\ ~crashed
    /\ cpc.op = "dtor"
    /\ JoinEnabled(cpc.o)
    /\ w_pc' = [w_pc EXCEPT ![cpc.o] = "none"]
    /\ IF obj[cpc.o].fd # InvalidFd
       THEN fd_open' = FALSE /\ queue' = <<>>
       ELSE UNCHANGED <<fd_open, queue>>
    /\ obj' = [obj EXCEPT ![cpc.o] = NoObject]
    /\ cpc' = Idle
    /\ ev' = [NoEvent EXCEPT !.type = "dtor", !.o = cpc.o]
    /\ UNCHANGED <<sl, crashed>>

\* hybrid_endpoint(hybrid_endpoint &&other): the member initialisers move
\* interface_, config_, peer_mac_ and data_socket_ (other.fd_ becomes -1)
MoveConstruct(n, o) ==
    /\ CallerIdle
    /\ n # o /\ ~Live(n) /\ Live(o)
    /\ sl.pc = "idle"
    /\ obj' = [obj EXCEPT ![n] = [NoObject EXCEPT !.life = "live", !.fd = obj[o].fd],
                          ![o].fd = InvalidFd,
                          ![o].released = @ \/ obj[o].fd # InvalidFd]
    /\ cpc' = [op |-> "mctor", step |-> "run", o |-> n, other |-> o]
    /\ Quiet
    /\ UNCHANGED <<w_pc, sl, fd_open, queue, crashed>>

\* running_{other.running_.load()}; other.running_.store(false);
MoveConstructRun ==
    /\ ~crashed
    /\ cpc.op = "mctor" /\ cpc.step = "run"
    /\ obj' = [obj EXCEPT ![cpc.o].running = obj[cpc.other].running,
                          ![cpc.other].running = FALSE]
    /\ cpc' = [cpc EXCEPT !.step = "join"]
    /\ Quiet
    /\ UNCHANGED <<w_pc, sl, fd_open, queue, crashed>>

\* if (other.recv_thread_.joinable()) other.recv_thread_.join();
MoveConstructJoin ==
    /\ ~crashed
    /\ cpc.op = "mctor" /\ cpc.step = "join"
    /\ JoinEnabled(cpc.other)
    /\ w_pc' = [w_pc EXCEPT ![cpc.other] = "none"]
    /\ cpc' = Idle
    /\ Return("mctor", cpc.o, FALSE, FALSE, w_pc[cpc.o])
    /\ UNCHANGED <<obj, sl, fd_open, queue, crashed>>

\* operator=(hybrid_endpoint &&other), this != &other: stop_receiver();
MoveAssign(n, o) ==
    /\ CallerIdle
    /\ n # o /\ Live(n) /\ Live(o)
    /\ sl.pc = "idle"
    /\ obj' = [obj EXCEPT ![n].running = FALSE]
    /\ cpc' = [op |-> "massign", step |-> "join", o |-> n, other |-> o]
    /\ Quiet
    /\ UNCHANGED <<w_pc, sl, fd_open, queue, crashed>>

\* the join of stop_receiver
MoveAssignJoin ==
    /\ ~crashed
    /\ cpc.op = "massign" /\ cpc.step = "join"
    /\ JoinEnabled(cpc.o)
    /\ w_pc' = [w_pc EXCEPT ![cpc.o] = "none"]
    /\ cpc' = [cpc EXCEPT !.step = "sock"]
    /\ Quiet
    /\ UNCHANGED <<obj, sl, fd_open, queue, crashed>>

\* data_socket_ = std::move(other.data_socket_): raw_socket::operator= closes
\* the descriptor it held and takes other's, leaving other with -1
MoveAssignSocket ==
    /\ ~crashed
    /\ cpc.op = "massign" /\ cpc.step = "sock"
    /\ IF obj[cpc.o].fd # InvalidFd
       THEN fd_open' = FALSE /\ queue' = <<>>
       ELSE UNCHANGED <<fd_open, queue>>
    /\ obj' = [obj EXCEPT ![cpc.o].fd = obj[cpc.other].fd,
                          ![cpc.o].released = @ \/ obj[cpc.o].fd # InvalidFd,
                          ![cpc.other].fd = InvalidFd,
                          ![cpc.other].released = @ \/ obj[cpc.other].fd # InvalidFd]
    /\ cpc' = [cpc EXCEPT !.step = "run"]
    /\ Quiet
    /\ UNCHANGED <<w_pc, sl, crashed>>

\* running_.store(other.running_.load()); other.running_.store(false);
\* other.recv_thread_ is neither moved nor joined
MoveAssignRun ==
    /\ ~crashed
    /\ cpc.op = "massign" /\ cpc.step = "run"
    /\ obj' = [obj EXCEPT ![cpc.o].running = obj[cpc.other].running,
                          ![cpc.other].running = FALSE]
    /\ cpc' = Idle
    /\ ev' = [NoEvent EXCEPT !.type = "massign", !.o = cpc.o,
                             !.running = obj[cpc.other].running,
                             !.executing = Executing(cpc.o)]
    /\ UNCHANGED <<w_pc, sl, fd_open, queue, crashed>>

\* receive_data: data_socket_.receive(buffer) is a blocking ::recv
ReceiveData(o) ==
    /\ CallerIdle
    /\ Live(o)
    /\ \/ /\ obj[o].fd = InvalidFd
          /\ ev' = [NoEvent EXCEPT !.type = "receive_data", !.o = o,
                        !.res.state = "error", !.res.err = "socket_creation_failed"]
          /\ UNCHANGED queue
       \/ /\ obj[o].fd # InvalidFd
          /\ ev' = [NoEvent EXCEPT !.type = "receive_data", !.o = o,
                        !.res.state = "error", !.res.err = "socket_recv_failed"]
          /\ UNCHANGED queue
       \/ /\ obj[o].fd # InvalidFd
          /\ queue # <<>>
          /\ ev' = [NoEvent EXCEPT !.type = "receive_data", !.o = o, !.k = Head(queue),
                        !.res = receive_data_of(WireFrame(Head(queue)))]
          /\ queue' = Tail(queue)
    /\ UNCHANGED <<obj, w_pc, cpc, sl, fd_open, crashed>>

\* ---- the worker thread: receiver_loop ----
\* while (running_.load())
WorkerCheck(o) ==
    /\ ~crashed
    /\ w_pc[o] = "check"
    /\ w_pc' = [w_pc EXCEPT ![o] = IF obj[o].running THEN "poll" ELSE "exited"]
    /\ Quiet
    /\ UNCHANGED <<obj, cpc, sl, fd_open, queue, crashed>>

\* the worker calls a receive operation of data_socket_ whose is_valid()
\* is false
ReceiveOnInvalid(o) ==
    ev' = [NoEvent EXCEPT !.type = "worker_receive", !.o = o,
                          !.outcome = IF obj[o].released THEN "released" ELSE "never_open"]

\* a receiver loop that goes on after every failed receive
continue_after_any(outcome) == "check"

\* receiver_loop when receive_with_timeout returned an error: continue on
\* error_code::timeout, break on any other
receiver_loop_after(outcome) == IF outcome = "timeout" THEN "check" ELSE "exited"

\* receive_with_timeout returned the error `outcome` to the worker
ReceiveFailed(o, outcome) ==
    ev' = [NoEvent EXCEPT !.type = "worker_receive", !.o = o, !.outcome = outcome]

\* receive_with_timeout(buffer, 100 ms): is_valid(), then ::poll
WorkerPoll(o) ==
    /\ ~crashed
    /\ w_pc[o] = "poll"
    /\ IF obj[o].fd = InvalidFd
       THEN /\ w_pc' = [w_pc EXCEPT ![o] = receiver_loop_after("socket_creation_failed")]
            /\ ReceiveOnInvalid(o)
       ELSE \/ /\ queue = <<>>
               /\ w_pc' = [w_pc EXCEPT ![o] = receiver_loop_after("timeout")]
               /\ ReceiveFailed(o, "timeout")
            \/ /\ w_pc' = [w_pc EXCEPT ![o] = receiver_loop_after("socket_recv_failed")]
               /\ ReceiveFailed(o, "socket_recv_failed")
            \/ /\ queue # <<>>
               /\ w_pc' = [w_pc EXCEPT ![o] = "recv"]
               /\ Quiet
    /\ UNCHANGED <<obj, cpc, sl, fd_open, queue, crashed>>

\* return receive(buffer): is_valid(), then a blocking ::recv; the frame is
\* parsed and filtered
WorkerReceive(o) ==
    /\ ~crashed
    /\ w_pc[o] = "recv"
    /\ IF obj[o].fd = InvalidFd
       THEN /\ w_pc' = [w_pc EXCEPT ![o] = receiver_loop_after("socket_creation_failed")]
            /\ ReceiveOnInvalid(o)
            /\ UNCHANGED queue
       ELSE \/ /\ w_pc' = [w_pc EXCEPT ![o] = receiver_loop_after("socket_recv_failed")]
               /\ ReceiveFailed(o, "socket_recv_failed")
               /\ UNCHANGED queue
            \/ /\ queue # <<>>
               /\ queue' = Tail(queue)
               /\ ev' = [NoEvent EXCEPT !.type = "dispatch", !.o = o, !.k = Head(queue),
                            !.outcome = receiver_loop_dispatch(WireFrame(Head(queue)))]
               /\ w_pc' = [w_pc EXCEPT ![o] =
                        IF receiver_loop_dispatch(WireFrame(Head(queue))) = "callback"
                        THEN "callback" ELSE "check"]
    /\ UNCHANGED <<obj, cpc, sl, fd_open, crashed>>

\* callback(msg) runs and returns
WorkerCallback(o) ==
    /\ ~crashed
    /\ w_pc[o] = "callback"
    /\ w_pc' = [w_pc EXCEPT ![o] = "check"]
    /\ Quiet
    /\ UNCHANGED <<obj, cpc, sl, fd_open, queue, crashed>>

\* ---- a thread executing send_loop ----
SendLoop(o) ==
    /\ CallerIdle
    /\ Live(o)
    /\ sl.pc = "idle"
    /\ sl' = [pc |-> "store", o |-> o]
    /\ Quiet
    /\ UNCHANGED <<obj, w_pc, cpc, fd_open, queue, crashed>>

\* running_.store(true);
SendLoopStore ==
    /\ ~crashed
    /\ sl.pc = "store"
    /\ obj' = [obj EXCEPT ![sl.o].running = TRUE]
    /\ sl' = [sl EXCEPT !.pc = "check"]
    /\ Quiet
    /\ UNCHANGED <<w_pc, cpc, fd_open, queue, crashed>>

\* while (running_.load())
SendLoopCheck ==
    /\ ~crashed
    /\ sl.pc = "check"
    /\ IF obj[sl.o].running
       THEN sl' = [sl EXCEPT !.pc = "send"] /\ Quiet
       ELSE /\ sl' = [pc |-> "idle", o |-> "a"]
            /\ ev' = [NoEvent EXCEPT !.type = "send_loop", !.o = sl.o,
                            !.res.state = "value", !.running = obj[sl.o].running]
    /\ UNCHANGED <<obj, w_pc, cpc, fd_open, queue, crashed>>

\* send_data(message_generator()): on an error send_loop returns it,
\* otherwise it sleeps send_interval and tests the flag again
SendLoopSend ==
    /\ ~crashed
    /\ sl.pc = "send"
    /\ \/ obj[sl.o].fd # InvalidFd /\ sl' = [sl EXCEPT !.pc = "check"] /\ Quiet
       \/ /\ sl' = [pc |-> "idle", o |-> "a"]
          /\ ev' = [NoEvent EXCEPT !.type = "send_loop", !.o = sl.o,
                        !.res.state = "error",
                        !.res.err = IF obj[sl.o].fd = InvalidFd
                                    THEN "socket_creation_failed"
                                    ELSE "socket_send_failed",
                        !.running = obj[sl.o].running]
    /\ UNCHANGED <<obj, w_pc, cpc, fd_open, queue, crashed>>

\* ---- the network ----
FrameArrives(k) ==
    /\ ~crashed
    /\ fd_open
    /\ Len(queue) < MaxQueue
    /\ queue' = Append(queue, k)
    /\ Quiet
    /\ UNCHANGED <<obj, w_pc, cpc, sl, fd_open, crashed>>

SsIdle ==
    /\ obj = [o \in Objs |-> IF o = "a" THEN [NoObject EXCEPT !.life = "live", !.fd = DataFd]
                             ELSE NoObject]
    /\ w_pc = [o \in Objs |-> "none"]
    /\ cpc = Idle
    /\ sl = [pc |-> "idle", o |-> "a"]
    /\ fd_open = TRUE
    /\ queue = <<>>
    /\ crashed = FALSE
    /\ ev = NoEvent

SsStep ==
    \/ \E o \in Objs :
        \/ DefaultConstruct(o) \/ StartReceiver(o) \/ StopReceiver(o) \/ Destroy(o)
        \/ MoveConstruct(o, Other(o)) \/ MoveAssign(o, Other(o))
        \/ ReceiveData(o) \/ SendLoop(o)
        \/ WorkerCheck(o) \/ WorkerPoll(o) \/ WorkerReceive(o) \/ WorkerCallback(o)
    \/ StartSpawn \/ StopJoin \/ DestroyJoin
    \/ MoveConstructRun \/ MoveConstructJoin
    \/ MoveAssignJoin \/ MoveAssignSocket \/ MoveAssignRun
    \/ SendLoopStore \/ SendLoopCheck \/ SendLoopSend
    \/ \E k \in FrameKinds : FrameArrives(k)


(***************************************************************************)
(* receiver_loop of one session (hybrid_chat.cpp): session "a" with its    *)
(* caller starting and stopping the receiver, the worker thread, and the   *)
(* frames the network delivers to the data socket.  rx records the frames  *)
(* in arrival order, the frames receive_with_timeout handed to the worker  *)
(* and the data_message of every callback(msg) call.                       *)
(***************************************************************************)
ReceiverKinds == FrameKinds \cup {"untagged_data"}

RxIdle == rx = [arrived |-> <<>>, seen |-> <<>>, calls |-> <<>>]

\* a frame reaches the data socket
RxArrive(k) ==
    /\ Len(rx.arrived) < MaxFrames
    /\ FrameArrives(k)
    /\ rx' = [rx EXCEPT !.arrived = Append(@, k)]

\* one step of the worker; a step that read a frame ends with continue or
\* with callback(msg), msg filled from the parser
RxWorker ==
    /\ \/ WorkerCheck("a") \/ WorkerPoll("a") \/ WorkerReceive("a") \/ WorkerCallback("a")
    /\ rx' = IF ev'.type = "dispatch"
             THEN [rx EXCEPT !.seen = Append(@, ev'.k),
                             !.calls = IF ev'.outcome = "callback"
                                       THEN Append(@, message_of(frame_parser_parse(WireFrame(ev'.k))))
                                       ELSE @]
             ELSE rx

\* start_receiver and stop_receiver of the session
RxControl ==
    /\ \/ StartReceiver("a") \/ StartSpawn \/ StopReceiver("a") \/ StopJoin
    /\ UNCHANGED rx

RxStep == RxControl \/ RxWorker \/ \E k \in ReceiverKinds : RxArrive(k)

(***************************************************************************)
(* tcp_socket::connect (raw_socket.cpp): one call, with the steady clock   *)
(* counted in ticks of the 100 ms back-off.  cn holds the position in the  *)
(* function, the clock, the deadline, whether the descriptor is open, the  *)
(* clock values at which ::connect was called, how many calls of ::connect *)
(* returned 0, and the result.                                             *)
(***************************************************************************)
Timeouts == 0..MaxTimeout

NoConnect == [pc |-> "idle", now |-> 0, timeout |-> 0, deadline |-> 0, fd_open |-> FALSE,
              starts |-> {}, connected |-> 0, res |-> "none"]

\* a deadline taken anew before every attempt
per_attempt_deadline(now, timeout, deadline) == now + timeout

\* the deadline the loop condition compares with: the one computed before
\* the loop
loop_deadline(now, timeout, deadline) == deadline

\* ::socket, ::inet_pton, deadline = steady_clock::now() + timeout
ConnectCall(timeout, socket_ok, ip_ok) ==
    /\ cn.pc = "idle"
    /\ cn' = IF ~socket_ok
             THEN [cn EXCEPT !.pc = "returned", !.timeout = timeout,
                             !.res = "socket_creation_failed"]
             ELSE IF ~ip_ok
             THEN [cn EXCEPT !.pc = "returned", !.timeout = timeout,
                             !.res = "connection_failed"]
             ELSE [cn EXCEPT !.pc = "check", !.timeout = timeout, !.fd_open = TRUE,
                             !.deadline = cn.now + timeout]

\* while (steady_clock::now() < deadline): enter the body and call
\* ::connect, or leave the loop, ::close(fd) and return connection_failed
ConnectCheck ==
    /\ cn.pc = "check"
    /\ cn' = IF cn.now < loop_deadline(cn.now, cn.timeout, cn.deadline)
             THEN [cn EXCEPT !.pc = "attempt", !.starts = @ \cup {cn.now}]
             ELSE [cn EXCEPT !.pc = "returned", !.fd_open = FALSE,
                             !.res = "connection_failed"]

\* ::connect returns after dt ticks: 0 means return tcp_socket{fd}
ConnectAttempt(ok, dt) ==
    /\ cn.pc = "attempt"
    /\ cn.now + dt <= MaxClock
    /\ cn' = IF ok
             THEN [cn EXCEPT !.pc = "returned", !.now = @ + dt, !.connected = @ + 1,
                             !.res = "stream"]
             ELSE [cn EXCEPT !.pc = "sleep", !.now = @ + dt]

\* std::this_thread::sleep_for(100 ms)
ConnectSleep ==
    /\ cn.pc = "sleep"
    /\ cn.now < MaxClock
    /\ cn' = [cn EXCEPT !.pc = "check", !.now = @ + 1]

\* the caller is done with the result; the clock keeps its value
ConnectAgain ==
    /\ cn.pc = "returned"
    /\ cn.now < MaxClock
    /\ cn' = [NoConnect EXCEPT !.now = cn.now]

CnIdle == cn = NoConnect

CnStep ==
    \/ \E t \in Timeouts, s \in BOOLEAN, i \in BOOLEAN : ConnectCall(t, s, i)
    \/ ConnectCheck
    \/ \E ok \in BOOLEAN, dt \in 0..1 : ConnectAttempt(ok, dt)
    \/ ConnectSleep
    \/ ConnectAgain

(***************************************************************************)
(* Library functions called on their own (vlan.hpp, vlan.cpp,              *)
(* interface.cpp, mtu.hpp) and the statistics of the ping client           *)
(* (remote_node.cpp): lib holds the function called, its argument and what *)
(* it returned.                                                            *)
(***************************************************************************)
NoLibCall == [op |-> "none", arg |-> <<>>, ret |-> <<>>]

\* no function has been called yet
Uncalled == lib.op = "none"

LibCall(op, arg, ret) == lib' = [op |-> op, arg |-> arg, ret |-> ret]

\* ---- vlan_tci::encode / decode (vlan.hpp) ----
AllPriorities == 0..max_priority
AllVlanIds == 0..max_vlan_id

\* decode reading the priority from bits 12..14
decode_shifted(tci) ==
    [priority |-> (tci \div 4096) % 8,
     dei |-> ((tci \div 4096) % 2) # 0,
     vlan_id |-> tci % 4096]

\* tci & 0x0FFF, (tci >> 12) & 0x01, (tci >> 13) & 0x07
vlan_tci_decode(tci) ==
    [priority |-> (tci \div 8192) % 8,
     dei |-> ((tci \div 4096) % 2) # 0,
     vlan_id |-> tci % 4096]

\* vlan_tci::decode(tci.encode())
tci_round_trip(tci) == vlan_tci_decode(vlan_tci_encode(tci))

CallTciRoundTrip ==
    /\ Uncalled
    /\ \E p \in AllPriorities, dei \in BOOLEAN, v \in AllVlanIds :
            LibCall("tci", [priority |-> p, dei |-> dei, vlan_id |-> v],
                [encoded |-> vlan_tci_encode([priority |-> p, dei |-> dei, vlan_id |-> v]),
                 decoded |-> tci_round_trip([priority |-> p, dei |-> dei, vlan_id |-> v])])

\* ---- strip_vlan_tag (vlan.cpp) ----
\* is_vlan_tagged(frame)
is_vlan_tagged(frame) ==
    IF Len(frame) < eth_header_size THEN FALSE
    ELSE frame[13] * 256 + frame[14] = eth_p_8021q

\* strip_vlan_tag copying the TCI in place of the inner EtherType
strip_keeps_tci(frame) ==
    IF ~is_vlan_tagged(frame) THEN Ok(frame)
    ELSE IF Len(frame) < eth_vlan_header_size THEN Err("invalid_frame_size")
    ELSE Ok(SubSeq(frame, 1, 12) \o <<frame[15], frame[16]>>
            \o SubSeq(frame, eth_vlan_header_size + 1, Len(frame)))

\* strip_vlan_tag(frame)
strip_vlan_tag(frame) ==
    IF ~is_vlan_tagged(frame) THEN Ok(frame)
    ELSE IF Len(frame) < eth_vlan_header_size THEN Err("invalid_frame_size")
    ELSE Ok(SubSeq(frame, 1, 12) \o <<frame[17], frame[18]>>
            \o SubSeq(frame, eth_vlan_header_size + 1, Len(frame)))

\* the two octets of a 16-bit field as they stand on the wire
WireU16(x) == <<x \div 256, x % 256>>

\* frames as they arrive from the wire: tagged ones of every inner type,
\* untagged ones, and a tagged one cut short
WireFrames ==
    {Wire(dst, MacB, WireU16(eth_p_8021q) \o WireU16(tci) \o WireU16(et), pl) :
        dst \in Macs, tci \in {0, 57354, 65535}, et \in EtherTypes, pl \in Payloads}
    \cup {Wire(dst, MacB, WireU16(et), pl) : dst \in Macs, et \in EtherTypes \ {eth_p_8021q}, pl \in Payloads}
    \cup {Wire(MacA, MacB, WireU16(eth_p_8021q), <<224, 10>>)}

CallStrip ==
    /\ Uncalled
    /\ \E f \in WireFrames : LibCall("strip", f, strip_vlan_tag(f))

\* ---- mac_address::to_string / from_string (interface.cpp) ----
LibOctets == {0, 9, 10, 171, 255}
LibMacs == [1..mac_address_size -> LibOctets]

\* {:X} of one nibble
hex_digit_upper(n) == IF n < 10 THEN 48 + n ELSE 65 + (n - 10)

\* {:x} of one nibble, as its character code
hex_digit(n) == IF n < 10 THEN 48 + n ELSE 97 + (n - 10)

\* {:02x} of one octet
hex_pair(b) == <<hex_digit(b \div 16), hex_digit(b % 16)>>

RECURSIVE join_pairs(_)
join_pairs(bytes) ==
    IF Len(bytes) = 1 THEN hex_pair(bytes[1])
    ELSE hex_pair(bytes[1]) \o <<58>> \o join_pairs(Tail(bytes))

\* mac_address::to_string: fmt::format("{:02x}:{:02x}:{:02x}:{:02x}:{:02x}:{:02x}", ...)
mac_to_string(m) == join_pairs(m)

\* hex_to_int(c)
hex_to_int(c) ==
    IF c >= 48 /\ c <= 57 THEN c - 48
    ELSE IF c >= 97 /\ c <= 102 THEN c - 97 + 10
    ELSE IF c >= 65 /\ c <= 70 THEN c - 65 + 10
    ELSE -1

\* mac_address::from_string(str)
mac_from_string(str) ==
    IF Len(str) # 17 THEN Err("invalid_mac_address")
    ELSE IF str[3] \notin {58, 45} THEN Err("invalid_mac_address")
    ELSE IF \E k \in 1..5 : str[3 * k] # str[3]
    THEN Err("invalid_mac_address")
    ELSE IF \E k \in 0..5 : hex_to_int(str[3 * k + 1]) < 0 \/ hex_to_int(str[3 * k + 2]) < 0
    THEN Err("invalid_mac_address")
    ELSE Ok([k \in 1..6 |-> hex_to_int(str[3 * (k - 1) + 1]) * 16 + hex_to_int(str[3 * (k - 1) + 2])])

CallMacRoundTrip ==
    /\ Uncalled
    /\ \E m \in LibMacs :
            LibCall("mac", m, [text |-> mac_to_string(m), parsed |-> mac_from_string(mac_to_string(m))])

\* ---- filter_payload_sizes (mtu.hpp) ----
\* a value of the container's element type (std::size_t, 64 bits) is held
\* as q * 2^31 + r with 0 <= r < 2^31: SizeOf(q, r)
SizeOf(q, r) == [q |-> q, r |-> r]
Small(r) == SizeOf(0, r)

\* static_cast<int>(size): the low 32 bits as a two's complement int
cast_to_int(size) == IF size.q % 2 = 1 THEN size.r - 2147483647 - 1 ELSE size.r

\* a conversion that would keep values above INT_MAX above every int
cast_saturating(size) == IF size.q > 0 THEN 2147483647 ELSE size.r

\* calculate_max_payload(mtu, vlan)
calculate_max_payload(mtu, vlan) ==
    mtu - (mtu_eth_header_size + (IF vlan THEN vlan_tag_size ELSE 0))

\* keeps every element of the input
filter_keeps_all(sizes, mtu, vlan) == sizes

\* filter_payload_sizes(payload_sizes, mtu, vlan)
RECURSIVE filter_payload_sizes(_, _, _)
filter_payload_sizes(sizes, mtu, vlan) ==
    IF sizes = <<>> THEN <<>>
    ELSE IF cast_to_int(Head(sizes)) <= calculate_max_payload(mtu, vlan)
    THEN <<Head(sizes)>> \o filter_payload_sizes(Tail(sizes), mtu, vlan)
    ELSE filter_payload_sizes(Tail(sizes), mtu, vlan)

SizeValues ==
    {Small(r) : r \in {64, 1482, 1483, 1486, 1487, 8192}}
    \cup {SizeOf(1, 0), SizeOf(2, 64), SizeOf(3, 1400)}
BenchSizes == [i \in 1..8 |-> Small(<<64, 128, 256, 512, 1024, 1400, 4096, 8192>>[i])]
SizeLists == SeqsUpTo(SizeValues, MaxSizes) \cup {BenchSizes}
Mtus == {1500, 9000}

CallFilter ==
    /\ Uncalled
    /\ \E sizes \in SizeLists, mtu \in Mtus, vlan \in BOOLEAN :
            LibCall("filter", [sizes |-> sizes, mtu |-> mtu, vlan |-> vlan],
                filter_payload_sizes(sizes, mtu, vlan))

\* ---- the statistics run_ping_client prints (remote_node.cpp) ----
RECURSIVE InsertSorted(_, _)
InsertSorted(x, s) ==
    IF s = <<>> THEN <<x>>
    ELSE IF x <= Head(s) THEN <<x>> \o s
    ELSE <<Head(s)>> \o InsertSorted(x, Tail(s))

\* std::sort(latencies.begin(), latencies.end())
RECURSIVE std_sort(_)
std_sort(s) == IF s = <<>> THEN <<>> ELSE InsertSorted(Head(s), std_sort(Tail(s)))

RECURSIVE SumSeq(_)
SumSeq(s) == IF s = <<>> THEN 0 ELSE Head(s) + SumSeq(Tail(s))

\* the lower median
median_low_index(n) == (n - 1) \div 2

\* latencies.size() / 2
p50_index(n) == n \div 2

\* latencies.size() * 99 / 100
p99_index(n) == (n * 99) \div 100

\* duration_cast<microseconds> of a count of nanoseconds
to_us(ns) == ns \div 1000

\* min / avg / max / p50 / p99 of the latencies pushed (nanoseconds), in
\* microseconds; total_latency is their sum
ping_statistics(latencies) ==
    [n |-> Len(latencies),
     p50_at |-> p50_index(Len(latencies)),
     p99_at |-> p99_index(Len(latencies)),
     min |-> to_us(std_sort(latencies)[1]),
     max |-> to_us(std_sort(latencies)[Len(latencies)]),
     avg |-> to_us(SumSeq(latencies) \div Len(latencies)),
     p50 |-> to_us(std_sort(latencies)[p50_index(Len(latencies)) + 1]),
     p99 |-> to_us(std_sort(latencies)[p99_index(Len(latencies)) + 1])]

LatencyValues == {10000, 20000, 35000}
BenchLatencies == [i \in 1..10 |-> (11 - i) * 10000]
LatencyLists == (SeqsUpTo(LatencyValues, MaxObs) \ {<<>>}) \cup {BenchLatencies}

CallStatistics ==
    /\ Uncalled
    /\ \E ls \in LatencyLists : LibCall("statistics", ls, ping_statistics(ls))

\* ---- ipc_channel::receive / receive_with_timeout (ipc_channel.cpp) ----
IpcProtocols == {eth_p_custom, 2048}

\* config.recv_buffer_size: room for every frame, or for 16 bytes
IpcBufferSizes == {16, 70000}

\* what raw_socket::receive / receive_with_timeout can return without data
IpcSocketErrors == {"socket_creation_failed", "socket_recv_failed", "timeout"}

\* frames on the wire: tagged and untagged ones, and one cut to 0 and to 13
IpcFrames ==
    WireFrames \cup {SubSeq(Wire(MacA, MacB, WireU16(eth_p_custom), <<84>>), 1, n) : n \in {0, 13}}

\* ::recv(fd_, buffer.data(), buffer.size(), 0): the bytes that fit
recv_into(size, frame) ==
    IF Len(frame) <= size THEN frame ELSE SubSeq(frame, 1, size)

\* receive without the protocol check
ipc_receive_any_type(sock_err, received, protocol_id) ==
    IF sock_err # "none" THEN Err(sock_err)
    ELSE IF ~is_valid(frame_parser_parse(received)) THEN Err("invalid_frame_size")
    ELSE Ok(payload(frame_parser_parse(received)))

\* the body shared by receive() and receive_with_timeout(): socket error,
\* parser validity, protocol check, payload copy
ipc_receive(sock_err, received, protocol_id) ==
    IF sock_err # "none" THEN Err(sock_err)
    ELSE IF ~is_valid(frame_parser_parse(received)) THEN Err("invalid_frame_size")
    ELSE IF ether_type(frame_parser_parse(received)) # protocol_id THEN Ok(<<>>)
    ELSE Ok(payload(frame_parser_parse(received)))

CallIpcReceive ==
    /\ Uncalled
    /\ \E f \in IpcFrames, size \in IpcBufferSizes, id \in IpcProtocols,
          e \in IpcSocketErrors \cup {"none"} :
            LibCall("ipc_receive",
                    [frame |-> f, size |-> size, protocol_id |-> id, sock_err |-> e,
                     received |-> IF e = "none" THEN recv_into(size, f) ELSE <<>>],
                    ipc_receive(e, recv_into(size, f), id))

\* ---- interface_info::query (interface.cpp) ----
IFNAMSIZ == 16

\* interface names as character codes: "", "lo", "eth0", "nosuch", "eth 0",
\* "eth/0", "eth0\n", "eth0\t", and 15, 16 and 17 times 'x'
QueryNames ==
    {<<>>, <<108, 111>>, <<101, 116, 104, 48>>, <<110, 111, 115, 117, 99, 104>>,
     <<101, 116, 104, 32, 48>>, <<101, 116, 104, 47, 48>>,
     <<101, 116, 104, 48, 10>>, <<101, 116, 104, 48, 9>>}
    \cup {[i \in 1..n |-> 120] : n \in {IFNAMSIZ - 1, IFNAMSIZ, IFNAMSIZ + 1}}

\* the interfaces the kernel knows: "lo" and "eth0"
KernelNames == {<<108, 111>>, <<101, 116, 104, 48>>}

\* interface_info::query(name): the length test, the ioctl socket, then
\* SIOCGIFINDEX and SIOCGIFHWADDR; sockets counts the sockets opened and
\* ioctls the kernel queries issued
query(name, sock_ok, hw_ok) ==
    IF Len(name) = 0 \/ Len(name) >= IFNAMSIZ
    THEN [ok |-> FALSE, err |-> "interface_not_found", sockets |-> 0, ioctls |-> 0]
    ELSE IF ~sock_ok
    THEN [ok |-> FALSE, err |-> "socket_creation_failed", sockets |-> 1, ioctls |-> 0]
    ELSE IF name \notin KernelNames
    THEN [ok |-> FALSE, err |-> "interface_not_found", sockets |-> 1, ioctls |-> 1]
    ELSE IF ~hw_ok
    THEN [ok |-> FALSE, err |-> "interface_query_failed", sockets |-> 1, ioctls |-> 2]
    ELSE [ok |-> TRUE, err |-> "success", sockets |-> 1, ioctls |-> 4]

CallQuery ==
    /\ Uncalled
    /\ \E name \in QueryNames, sock_ok \in BOOLEAN, hw_ok \in BOOLEAN :
            LibCall("query", [name |-> name, sock_ok |-> sock_ok, hw_ok |-> hw_ok],
                    query(name, sock_ok, hw_ok))

\* ---- send_with_retry (remote_node.cpp) ----
\* what the successive send_raw calls return, one entry per possible attempt
SendOutcomes(R) == [1..(R + 1) -> {"sent", "socket_send_failed"}]

\* the helper making every attempt whatever the results
send_every_attempt(outcomes, R) ==
    [attempts |-> R + 1, sleeps |-> R, result |-> outcomes[R + 1]]

RECURSIVE retry_loop(_, _, _)
\* for (i = 0; i < max_retries; ++i) { send_raw; if ok return; sleep_for }
\* return sock.send_raw(frame, iface);
retry_loop(outcomes, R, i) ==
    IF i < R
    THEN IF outcomes[i + 1] = "sent"
         THEN [attempts |-> i + 1, sleeps |-> i, result |-> outcomes[i + 1]]
         ELSE retry_loop(outcomes, R, i + 1)
    ELSE [attempts |-> R + 1, sleeps |-> R, result |-> outcomes[R + 1]]

send_with_retry(outcomes, R) == retry_loop(outcomes, R, 0)

CallSendWithRetry ==
    /\ Uncalled
    /\ \E R \in 0..MaxRetries : \E outcomes \in SendOutcomes(R) :
            LibCall("send_with_retry", [max_retries |-> R, outcomes |-> outcomes],
                    send_with_retry(outcomes, R))

LbIdle == lib = NoLibCall

LbStep == CallTciRoundTrip \/ CallStrip \/ CallMacRoundTrip \/ CallFilter \/ CallStatistics
    \/ CallIpcReceive \/ CallQuery \/ CallSendWithRetry

(***************************************************************************)
(* remote_node (apps/remote_node.cpp): one process running one of its four *)
(* loops, the signal handler that clears g_running, and the frames and     *)
(* pongs the network delivers.  Waits are counted in ticks.  nd holds the  *)
(* mode, the configuration, g_running, the position in the loop, the ticks *)
(* left of the wait in progress, the ping sequence number (or the flood    *)
(* packet count), the pings whose pong is still on its way, the latency    *)
(* observations made, the frame the echo server last received and what it  *)
(* sent for it, and, since g_running was cleared, how many loop tests      *)
(* passed and how many waits were in progress or begun.                    *)
(***************************************************************************)
Modes == {"echo", "sink", "ping", "flood"}
eth_p_bench == 48879
msg_ping == 1
msg_pong == 2
LocalMac == MacA

NodeConfigs ==
    [use_vlan : BOOLEAN, vlan_id : {10, 4096}, payload_size : {8, 9},
     count : {MaxCount}, interval : {0, 1}, timeout : 1..MaxWait]

\* frames the echo server may receive
BenchHeaders ==
    {WireU16(eth_p_bench), WireU16(eth_p_8021q) \o <<224, 10>> \o WireU16(eth_p_bench),
     WireU16(2048), WireU16(eth_p_8021q) \o <<224, 10>> \o WireU16(2048)}
BenchPayloads == {<<>>, <<msg_ping>>, <<msg_ping, 84>>, <<msg_pong, 84>>, <<3>>}
EchoFrames ==
    {Wire(LocalMac, src, hdr, pl) : src \in {MacB, BroadcastMac}, hdr \in BenchHeaders,
                                    pl \in BenchPayloads}
    \cup {Zeros(eth_header_size - 1), Wire(LocalMac, MacB, WireU16(eth_p_8021q), <<224, 10>>)}

NoNode == [mode |-> "echo", running |-> TRUE, pc |-> "none",
           cfg |-> [use_vlan |-> FALSE, vlan_id |-> 10, payload_size |-> 1, count |-> MaxCount,
                    interval |-> 0, timeout |-> 1],
           left |-> 0, seq |-> 0, pending |-> {}, obs |-> {}, req |-> <<>>, sent |-> <<>>,
           after |-> [tests |-> 0, waits |-> 0]]

\* build_frame(dest, src, payload, cfg)
node_build_frame(dest, src, pl, cfg) ==
    IF cfg.use_vlan
    THEN build_vlan_frame(dest, src, [priority |-> 0, dei |-> FALSE, vlan_id |-> cfg.vlan_id],
                          eth_p_bench, pl)
    ELSE build_simple_frame(dest, src, eth_p_bench, pl)

\* a loop condition that does not read g_running
loop_ignores_flag(running, more) == more

\* while (g_running.load() && ...)
loop_continues(running, more) == running /\ more

\* a loop test passed, a wait begins: what is counted once g_running is clear
Passed(n) == IF n.running THEN n.after ELSE [n.after EXCEPT !.tests = IF @ < 2 THEN @ + 1 ELSE @]
Waiting(n) == IF n.running THEN n.after ELSE [n.after EXCEPT !.waits = IF @ < 2 THEN @ + 1 ELSE @]

\* signal_handler: g_running.store(false)
NodeSignal ==
    /\ nd.pc \in {"test", "body", "wait", "sleep"}
    /\ nd.running
    /\ nd' = [nd EXCEPT !.running = FALSE,
                        !.after.waits = IF nd.pc \in {"wait", "sleep"} THEN 1 ELSE 0]

\* ---- run_echo_server, run_sink_server ----
\* while (g_running.load()): the body begins with receive_with_timeout
ServerTest ==
    /\ nd.mode \in {"echo", "sink"}
    /\ nd.pc = "test"
    /\ nd' = IF loop_continues(nd.running, TRUE)
             THEN [nd EXCEPT !.pc = "wait", !.left = nd.cfg.timeout, !.after = Waiting([nd EXCEPT !.after = Passed(nd)])]
             ELSE [nd EXCEPT !.pc = "returned"]

\* the echo server answers a ping that ignores the message type
echo_answers_any(data) ==
    /\ is_valid(frame_parser_parse(data))
    /\ ether_type(frame_parser_parse(data)) = eth_p_bench
    /\ payload(frame_parser_parse(data)) # <<>>

\* the checks of run_echo_server before it builds a response
echo_answers(data) ==
    /\ is_valid(frame_parser_parse(data))
    /\ ether_type(frame_parser_parse(data)) = eth_p_bench
    /\ payload(frame_parser_parse(data)) # <<>>
    /\ payload(frame_parser_parse(data))[1] = msg_ping

\* response_payload = payload; response_payload[0] = msg_pong;
\* build_frame(parser.src_mac(), iface.mac(), response_payload, cfg)
echo_response(data, cfg) ==
    node_build_frame(src_mac(frame_parser_parse(data)), LocalMac,
                     [payload(frame_parser_parse(data)) EXCEPT ![1] = msg_pong], cfg)

\* what the echo server hands to send_raw for the frame it received
echo_sends(data, cfg) ==
    IF echo_answers(data) /\ echo_response(data, cfg).ok
    THEN <<echo_response(data, cfg).bytes>> ELSE <<>>

\* receive_with_timeout returned a timeout or another error: continue
ServerNoFrame ==
    /\ nd.mode \in {"echo", "sink"}
    /\ nd.pc = "wait"
    /\ nd' = [nd EXCEPT !.pc = "test", !.left = 0, !.req = <<>>, !.sent = <<>>]

\* receive_with_timeout returned the frame data; the rest of the loop body
ServerFrame(data) ==
    /\ nd.mode \in {"echo", "sink"}
    /\ nd.pc = "wait"
    /\ nd' = [nd EXCEPT !.pc = "test", !.left = 0, !.req = data,
                        !.sent = IF nd.mode = "echo" THEN echo_sends(data, nd.cfg) ELSE <<>>]

\* ---- run_ping_client ----
\* while (g_running.load() && (cfg.count == 0 || seq < cfg.count))
PingTest ==
    /\ nd.mode = "ping"
    /\ nd.pc = "test"
    /\ nd' = IF loop_continues(nd.running, nd.seq < nd.cfg.count)
             THEN [nd EXCEPT !.pc = "body", !.after = Passed(nd)]
             ELSE [nd EXCEPT !.pc = "returned"]

\* build_frame and send_with_retry: continue when either fails; else the
\* wait for the response begins, deadline = send_time + timeout_ms
PingSend(send_ok) ==
    /\ nd.mode = "ping"
    /\ nd.pc = "body"
    /\ nd' = IF ~node_build_frame(MacB, LocalMac, Zeros(nd.cfg.payload_size), nd.cfg).ok \/ ~send_ok
             THEN [nd EXCEPT !.pc = "test"]
             ELSE [nd EXCEPT !.pc = "wait", !.left = nd.cfg.timeout,
                             !.pending = @ \cup {nd.seq}, !.after = Waiting(nd)]

\* a sleep that does not read g_running
sleeps_whenever(interval, running) == interval > 0

\* if (cfg.interval_us > 0 && g_running.load()) sleep_for(interval_us)
ping_sleeps(interval, running) == interval > 0 /\ running

\* after the wait for the response: ++seq; then the sleep or the loop test
PingNext(n) ==
    IF ping_sleeps(n.cfg.interval, n.running)
    THEN [n EXCEPT !.seq = @ + 1, !.pc = "sleep", !.left = 0, !.after = Waiting(n)]
    ELSE [n EXCEPT !.seq = @ + 1, !.pc = "test", !.left = 0]

\* a client that takes every pong for the reply
pong_always_accepted(payload_size, resp_seq, seq) == TRUE

\* if (resp_payload.size() >= 9) { ...; if (resp_seq != seq) continue; }
pong_accepted(payload_size, resp_seq, seq) ==
    IF payload_size >= 9 THEN resp_seq = seq ELSE TRUE

\* the deadline has passed, or receive_with_timeout(remaining) timed out:
\* break
PingTimeout ==
    /\ nd.mode = "ping"
    /\ nd.pc = "wait"
    /\ nd' = PingNext(nd)

\* receive_with_timeout returned after dt ticks with an error, an invalid
\* frame, a frame of another protocol or one that is no pong: continue
PingOther(dt) ==
    /\ nd.mode = "ping"
    /\ nd.pc = "wait"
    /\ dt <= nd.left
    /\ nd' = [nd EXCEPT !.left = @ - dt]

\* receive_with_timeout returned after dt ticks with the pong that answers
\* ping j
PingPong(j, dt) ==
    /\ nd.mode = "ping"
    /\ nd.pc = "wait"
    /\ dt <= nd.left
    /\ j \in nd.pending
    /\ nd' = IF pong_accepted(nd.cfg.payload_size, j, nd.seq)
             THEN PingNext([nd EXCEPT !.pending = @ \ {j},
                                      !.obs = @ \cup {[iter |-> nd.seq, of |-> j]}])
             ELSE [nd EXCEPT !.pending = @ \ {j}, !.left = @ - dt]

\* sleep_for(interval_us) returns
NodeSleep ==
    /\ nd.pc = "sleep"
    /\ nd' = [nd EXCEPT !.pc = "test"]

\* ---- run_flood_client ----
\* while (g_running.load() && (cfg.count == 0 || stats.packets_sent < cfg.count))
FloodTest ==
    /\ nd.mode = "flood"
    /\ nd.pc = "test"
    /\ nd' = IF loop_continues(nd.running, nd.seq < nd.cfg.count)
             THEN [nd EXCEPT !.pc = "body", !.after = Passed(nd)]
             ELSE [nd EXCEPT !.pc = "returned"]

\* send_raw; if (cfg.interval_us > 0) sleep_for(interval_us)
FloodSend(send_ok) ==
    /\ nd.mode = "flood"
    /\ nd.pc = "body"
    /\ nd' = [nd EXCEPT !.seq = IF send_ok THEN @ + 1 ELSE @,
                        !.pc = IF nd.cfg.interval > 0 THEN "sleep" ELSE "test",
                        !.after = IF nd.cfg.interval > 0 THEN Waiting(nd) ELSE @]

NdIdle == nd = NoNode

\* main: parse_args, std::signal, then the loop of the mode
NdInit == \E m \in Modes, c \in NodeConfigs : nd = [NoNode EXCEPT !.mode = m, !.cfg = c, !.pc = "test"]

NdStep ==
    \/ NodeSignal
    \/ ServerTest \/ ServerNoFrame \/ \E f \in EchoFrames : ServerFrame(f)
    \/ PingTest \/ \E ok \in BOOLEAN : PingSend(ok)
    \/ PingTimeout
    \/ \E dt \in 1..MaxWait : PingOther(dt)
    \/ \E j \in 0..MaxCount, dt \in 1..MaxWait : PingPong(j, dt)
    \/ NodeSleep
    \/ FloodTest \/ \E ok \in BOOLEAN : FloodSend(ok)
(***************************************************************************)
(* SpecServerWait: handshake::run_server from its call to the return of    *)
(* accept, with the time the thread has spent blocked in ::accept.         *)
(***************************************************************************)
NoServer == [pc |-> "none", timeout |-> 0, waited |-> 0, pending |-> FALSE, res |-> "none"]

\* an accept that gives up once the handshake timeout has passed
accept_with_deadline(waited, timeout, pending, sys_ok) ==
    IF ~sys_ok THEN "connection_failed"
    ELSE IF pending THEN "accepted"
    ELSE IF waited >= timeout THEN "timeout"
    ELSE "blocked"

\* (void)timeout; server_result->accept(): ::accept(fd_, nullptr, nullptr)
\* on the blocking listening socket returns a connection once one is
\* pending, or fails
server_accept(waited, timeout, pending, sys_ok) ==
    IF ~sys_ok THEN "connection_failed"
    ELSE IF pending THEN "accepted"
    ELSE "blocked"

\* run_server(port, local_mac, timeout) is called: tcp_socket::create_server
RunServerCall(timeout, outcome) ==
    /\ ac.pc = "none"
    /\ ac' = IF outcome = "success"
             THEN [ac EXCEPT !.pc = "accept", !.timeout = timeout]
             ELSE [ac EXCEPT !.pc = "returned", !.timeout = timeout, !.res = outcome]

\* one tick passes while the thread is blocked in ::accept
AcceptWaits ==
    /\ ac.pc = "accept"
    /\ ac.waited <= MaxClock
    /\ server_accept(ac.waited, ac.timeout, ac.pending, TRUE) = "blocked"
    /\ ac' = [ac EXCEPT !.waited = @ + 1]

\* a client's connection reaches the listening socket
ClientArrives ==
    /\ ac.pc = "accept"
    /\ ~ac.pending
    /\ ac' = [ac EXCEPT !.pending = TRUE]

\* accept returns: run_server goes on to send its MAC, or returns the error
AcceptReturns(sys_ok) ==
    /\ ac.pc = "accept"
    /\ server_accept(ac.waited, ac.timeout, ac.pending, sys_ok) # "blocked"
    /\ ac' = IF server_accept(ac.waited, ac.timeout, ac.pending, sys_ok) = "accepted"
             THEN [ac EXCEPT !.pc = "send", !.res = "accepted"]
             ELSE [ac EXCEPT !.pc = "returned",
                             !.res = server_accept(ac.waited, ac.timeout, ac.pending, sys_ok)]

AcIdle == ac = NoServer

AcStep ==
    \/ \E t \in Timeouts, o \in {"success", "socket_creation_failed", "socket_bind_failed"} :
            RunServerCall(t, o)
    \/ AcceptWaits
    \/ ClientArrives
    \/ \E ok \in BOOLEAN : AcceptReturns(ok)
(***************************************************************************)
(* SpecOrchestrator: benchmark_orchestrator::run (remote_benchmark.cpp)    *)
(* with the remote host's files and processes it creates and removes.      *)
(***************************************************************************)
NoRun == [pc |-> "none", running |-> TRUE, i |-> 0,
          binary |-> FALSE, log |-> FALSE, procs |-> FALSE,
          uploaded |-> FALSE, verified |-> FALSE, cleanups |-> 0,
          after |-> "none", ret |-> "none"]

\* the checks of deploy_binary() in their order: local binary exists,
\* get_remote_arch, upload_file, the "test -x" verification
DeploySteps == <<"exists", "arch", "upload", "verify">>

\* the calls of cleanup_remote() in their order: kill_remote_processes,
\* remove_file(remote_binary_path), remove_file("/tmp/l2net_server.log")
CleanupSteps == <<"kill", "rm_binary", "rm_log">>

Position(steps, pc) == CHOOSE k \in 1..Len(steps) : steps[k] = pc

InSteps(steps, pc) == \E k \in 1..Len(steps) : steps[k] = pc

\* run() is called; std::signal installs the handler
OrchRun ==
    /\ bo.pc = "none"
    /\ bo' = [bo EXCEPT !.pc = "connect"]

\* signal_handler: g_running.store(false)
OrchSignal ==
    /\ bo.pc \notin {"none", "returned"}
    /\ bo.running
    /\ bo' = [bo EXCEPT !.running = FALSE]

\* if (!connect_ssh()) return std::nullopt;
ConnectSsh(ok) ==
    /\ bo.pc = "connect"
    /\ bo' = IF ok THEN [bo EXCEPT !.pc = DeploySteps[1]]
             ELSE [bo EXCEPT !.pc = "returned", !.ret = "nullopt"]

\* one check of deploy_binary(): it returns false when the check fails,
\* and run() then returns std::nullopt; after the last, run() goes on
DeployBinary(ok) ==
    /\ InSteps(DeploySteps, bo.pc)
    /\ bo' = IF ~ok
             THEN [bo EXCEPT !.pc = "returned", !.ret = "nullopt"]
             ELSE [bo EXCEPT !.pc = IF bo.pc = "verify" THEN "detect"
                                   ELSE DeploySteps[Position(DeploySteps, bo.pc) + 1],
                             !.binary = @ \/ bo.pc = "upload",
                             !.uploaded = @ \/ bo.pc = "upload",
                             !.verified = @ \/ bo.pc = "verify"]

\* cleanup_remote() is entered on the way to returning ret
enter_cleanup(b, ret) ==
    [b EXCEPT !.pc = CleanupSteps[1], !.after = ret, !.cleanups = @ + 1]

\* one call of cleanup_remote(); its result is ignored
CleanupRemote(ok) ==
    /\ InSteps(CleanupSteps, bo.pc)
    /\ bo' = [bo EXCEPT !.pc = IF bo.pc = "rm_log" THEN "returned"
                                ELSE CleanupSteps[Position(CleanupSteps, bo.pc) + 1],
                        !.ret = IF bo.pc = "rm_log" THEN bo.after ELSE @,
                        !.procs = IF bo.pc = "kill" /\ ok THEN FALSE ELSE @,
                        !.binary = IF bo.pc = "rm_binary" /\ ok THEN FALSE ELSE @,
                        !.log = IF bo.pc = "rm_log" /\ ok THEN FALSE ELSE @]

\* if (!detect_mac_addresses()) { cleanup_remote(); return std::nullopt; }
DetectMac(ok) ==
    /\ bo.pc = "detect"
    /\ bo' = IF ok THEN [bo EXCEPT !.pc = "latency", !.i = 0]
             ELSE enter_cleanup(bo, "nullopt")

\* run_single_latency_test / run_single_throughput_test up to the local
\* client: kill_remote_processes, the server started with its output in
\* the log, the pgrep check
TestStart(start_ok, check_ok) ==
    /\ bo.pc \in {"latency", "throughput"}
    /\ bo.i < MaxSizes /\ bo.running
    /\ bo' = IF ~start_ok THEN [bo EXCEPT !.i = @ + 1, !.procs = FALSE]
             ELSE IF ~check_ok THEN [bo EXCEPT !.i = @ + 1, !.procs = FALSE, !.log = TRUE]
             ELSE [bo EXCEPT !.pc = bo.pc \o "_client", !.procs = TRUE, !.log = TRUE]

\* the local client has run (or popen failed): kill_remote_processes, and
\* the loop goes to the next payload size
TestClient ==
    /\ bo.pc \in {"latency_client", "throughput_client"}
    /\ bo' = [bo EXCEPT !.pc = IF bo.pc = "latency_client" THEN "latency" ELSE "throughput",
                        !.i = @ + 1, !.procs = FALSE]

\* run_latency_tests() returned: if (!g_running.load()) { cleanup_remote();
\* return results_; }
LatencyDone ==
    /\ bo.pc = "latency"
    /\ ~(bo.i < MaxSizes /\ bo.running)
    /\ bo' = IF ~bo.running THEN enter_cleanup(bo, "results")
             ELSE [bo EXCEPT !.pc = "throughput", !.i = 0]

\* run_throughput_tests() returned: cleanup_remote(); return results_;
ThroughputDone ==
    /\ bo.pc = "throughput"
    /\ ~(bo.i < MaxSizes /\ bo.running)
    /\ bo' = enter_cleanup(bo, "results")

BoIdle == bo = NoRun

BoStep ==
    \/ OrchRun
    \/ OrchSignal
    \/ \E ok \in BOOLEAN : ConnectSsh(ok)
    \/ \E ok \in BOOLEAN : DeployBinary(ok)
    \/ \E ok \in BOOLEAN : DetectMac(ok)
    \/ \E s \in BOOLEAN, c \in BOOLEAN : TestStart(s, c)
    \/ TestClient
    \/ LatencyDone
    \/ ThroughputDone
    \/ \E ok \in BOOLEAN : CleanupRemote(ok)
(***************************************************************************)
(* raw_socket and tcp_socket handles (raw_socket.hpp, raw_socket.cpp): two *)
(* handle objects of one class, the descriptors the OS handed out, and how *)
(* often ::close was called on each.                                       *)
(***************************************************************************)
Handles == {"s1", "s2"}
SocketClasses == {"raw_socket", "tcp_socket"}
Descriptors == 1..MaxFds

\* a handle object that does not exist
NoHandle == [life |-> "none", fd |-> InvalidFd, bound |-> FALSE, last |-> "none"]

\* raw_socket::is_valid / tcp_socket::is_valid: fd_ >= 0
handle_is_valid(h) == h.fd >= 0

\* std::exchange(other.fd_, -1) without the store to other.fd_
exchange_keeps_fd(fd) == fd

\* what std::exchange(other.fd_, -1) leaves in other.fd_
exchanged_fd(fd) == InvalidFd

\* close(): if (fd_ >= 0) { ::close(fd_); fd_ = -1; } bound_interface_.reset();
closed_by(h) == IF h.fd >= 0 THEN {h.fd} ELSE {}

CountClose(fds) == [f \in Descriptors |-> IF f \in fds THEN k_closes[f] + 1 ELSE k_closes[f]]

\* raw_socket::create / create_bound, tcp_socket::create_server / connect /
\* accept: ::socket (or ::accept) returned a descriptor
HandleCreate(h) ==
    /\ hd[h].life = "none"
    /\ k_next <= MaxFds
    /\ \E b \in (IF hd_class = "raw_socket" THEN BOOLEAN ELSE {FALSE}) :
        hd' = [hd EXCEPT ![h] = [life |-> "live", fd |-> k_next, bound |-> b,
                                 last |-> "created"]]
    /\ k_next' = k_next + 1
    /\ UNCHANGED <<hd_class, k_closes>>

\* a creation that fails after ::socket succeeded: create_bound's bind fails
\* and its local raw_socket is destroyed; tcp_socket::create_server and
\* connect call ::close(fd) before they return the error
HandleCreateFail(h) ==
    /\ hd[h].life = "none"
    /\ k_next <= MaxFds
    /\ k_closes' = CountClose({k_next})
    /\ k_next' = k_next + 1
    /\ UNCHANGED <<hd_class, hd>>

\* raw_socket() noexcept = default; tcp_socket() noexcept = default
HandleDefault(h) ==
    /\ hd[h].life = "none"
    /\ hd' = [hd EXCEPT ![h] = [NoHandle EXCEPT !.life = "live", !.last = "default"]]
    /\ UNCHANGED <<hd_class, k_closes, k_next>>

\* raw_socket(raw_socket &&other) / tcp_socket(tcp_socket &&other); the
\* moved-from std::optional bound_interface_ stays engaged
HandleMoveConstruct(n, o) ==
    /\ n # o
    /\ hd[n].life = "none" /\ hd[o].life = "live"
    /\ hd' = [hd EXCEPT ![n] = [life |-> "live", fd |-> hd[o].fd, bound |-> hd[o].bound,
                                last |-> "moved_to"],
                        ![o].fd = exchanged_fd(hd[o].fd),
                        ![o].last = "moved_from"]
    /\ UNCHANGED <<hd_class, k_closes, k_next>>

\* operator=(raw_socket &&other) / operator=(tcp_socket &&other)
HandleMoveAssign(n, o) ==
    /\ hd[n].life = "live" /\ hd[o].life = "live"
    /\ IF n = o
       THEN /\ hd' = [hd EXCEPT ![n].last = "self_assigned"]
            /\ UNCHANGED k_closes
       ELSE /\ k_closes' = CountClose(closed_by(hd[n]))
            /\ hd' = [hd EXCEPT ![n].fd = hd[o].fd,
                                ![n].bound = hd[o].bound,
                                ![n].last = "moved_to",
                                ![o].fd = exchanged_fd(hd[o].fd),
                                ![o].last = "moved_from"]
    /\ UNCHANGED <<hd_class, k_next>>

\* raw_socket::close / tcp_socket::close
HandleClose(h) ==
    /\ hd[h].life = "live"
    /\ k_closes' = CountClose(closed_by(hd[h]))
    /\ hd' = [hd EXCEPT ![h].fd = InvalidFd, ![h].bound = FALSE, ![h].last = "closed"]
    /\ UNCHANGED <<hd_class, k_next>>

\* ~raw_socket / ~tcp_socket: close();
HandleDestroy(h) ==
    /\ hd[h].life = "live"
    /\ k_closes' = CountClose(closed_by(hd[h]))
    /\ hd' = [hd EXCEPT ![h] = NoHandle]
    /\ UNCHANGED <<hd_class, k_next>>

\* the operations of a raw_socket that make a system call
RawOps == {"bind", "send_to", "send_raw", "receive", "receive_with_timeout"}

\* what the system calls of an operation may do: ::bind, ::sendto and ::recv
\* succeed or fail, ::recv fails with EAGAIN / EWOULDBLOCK, ::poll fails or
\* returns 0
SysOutcomes(op) ==
    CASE op \in {"bind", "send_to", "send_raw"} -> {"ok", "fail"}
      [] op = "receive" -> {"ok", "fail", "eagain"}
      [] OTHER -> {"ok", "fail", "eagain", "poll_fail", "poll_zero"}

NoRet == [op |-> "none", h |-> "s1", valid |-> FALSE, err |-> "success"]

\* the operations without their is_valid() check
raw_op_unchecked(op, valid, sys) ==
    CASE sys = "poll_fail" -> "socket_recv_failed"
      [] sys = "poll_zero" -> "timeout"
      [] sys = "eagain" -> "timeout"
      [] sys = "fail" -> IF op = "bind" THEN "socket_bind_failed"
                         ELSE IF op \in {"send_to", "send_raw"} THEN "socket_send_failed"
                         ELSE "socket_recv_failed"
      [] OTHER -> "success"

\* the error_code bind, send_to, send_raw, receive and receive_with_timeout
\* return ("success" for a value)
raw_op_result(op, valid, sys) ==
    IF ~valid THEN "socket_creation_failed"
    ELSE CASE sys = "poll_fail" -> "socket_recv_failed"
           [] sys = "poll_zero" -> "timeout"
           [] sys = "eagain" -> "timeout"
           [] sys = "fail" -> IF op = "bind" THEN "socket_bind_failed"
                              ELSE IF op \in {"send_to", "send_raw"} THEN "socket_send_failed"
                              ELSE "socket_recv_failed"
           [] OTHER -> "success"

\* a call of one of the operations on a handle object
HandleCall(h, op) ==
    /\ hd_class = "raw_socket"
    /\ hd[h].life = "live"
    /\ \E sys \in SysOutcomes(op) :
        /\ hd_ret' = [op |-> op, h |-> h, valid |-> handle_is_valid(hd[h]),
                      err |-> raw_op_result(op, handle_is_valid(hd[h]), sys)]
        /\ hd' = [hd EXCEPT ![h].bound =
                    IF op = "bind" /\ raw_op_result(op, handle_is_valid(hd[h]), sys) = "success"
                    THEN TRUE ELSE @]
    /\ UNCHANGED <<hd_class, k_closes, k_next>>

HdIdle ==
    /\ hd = [h \in Handles |-> NoHandle]
    /\ k_closes = [f \in Descriptors |-> 0]
    /\ k_next = 1
    /\ hd_ret = NoRet

HdStep ==
    \E n \in Handles :
        \/ /\ \/ HandleCreate(n) \/ HandleCreateFail(n) \/ HandleDefault(n)
              \/ HandleClose(n) \/ HandleDestroy(n)
              \/ \E o \in Handles : HandleMoveConstruct(n, o) \/ HandleMoveAssign(n, o)
           /\ UNCHANGED hd_ret
        \/ \E op \in RawOps : HandleCall(n, op)
(***************************************************************************)
(* SpecParser: one frame_parser object that is re-seated onto byte ranges  *)
(* of every length up to MaxRange and whose accessors are then called.     *)
(***************************************************************************)
RangeKinds == {"plain", "tagged", "swapped"}

\* octet i (counted from 0) of a range: its index plus one, except the type
\* field at offsets 12..13, which is 81 00 ("tagged") or 00 81 ("swapped")
RangeOctet(kind, i) ==
    IF kind = "tagged" /\ i = 12 THEN 129
    ELSE IF kind = "tagged" /\ i = 13 THEN 0
    ELSE IF kind = "swapped" /\ i = 12 THEN 0
    ELSE IF kind = "swapped" /\ i = 13 THEN 129
    ELSE i + 1

ByteRange(kind, len) == [i \in 1..len |-> RangeOctet(kind, i - 1)]

\* parse without the two resets at its top
reparse_without_reset(p, data) ==
    IF Len(data) < eth_header_size
    THEN [p EXCEPT !.data = data]
    ELSE IF U16At(data, 12) = eth_p_8021q
    THEN IF Len(data) < eth_vlan_header_size
         THEN [p EXCEPT !.data = data, !.has_vlan_tag = TRUE]
         ELSE [p EXCEPT !.data = data, !.has_vlan_tag = TRUE, !.valid = TRUE]
    ELSE [p EXCEPT !.data = data, !.valid = TRUE]

\* frame_parser::parse(data) called on the parser p: data_ = data;
\* valid_ = false; has_vlan_tag_ = false; then the two length checks
frame_parser_reparse(p, data) ==
    IF Len(data) < eth_header_size
    THEN [p EXCEPT !.data = data, !.valid = FALSE, !.has_vlan_tag = FALSE]
    ELSE IF U16At(data, 12) = eth_p_8021q
    THEN IF Len(data) < eth_vlan_header_size
         THEN [p EXCEPT !.data = data, !.valid = FALSE, !.has_vlan_tag = TRUE]
         ELSE [p EXCEPT !.data = data, !.valid = TRUE, !.has_vlan_tag = TRUE]
    ELSE [p EXCEPT !.data = data, !.valid = TRUE, !.has_vlan_tag = FALSE]

\* the byte offsets parse reads: data[12], data[13]
parse_reads(data) == IF Len(data) < eth_header_size THEN {} ELSE {12, 13}

payload_size(p) ==
    IF ~p.valid THEN 0
    ELSE IF Len(p.data) <= header_size(p) THEN 0
    ELSE Len(p.data) - header_size(p)

Accessors == {"dest_mac", "src_mac", "ether_type", "vlan_id", "vlan_priority",
              "payload", "payload_size"}

\* the value an accessor returns
accessor_value(a, p) ==
    CASE a = "dest_mac" -> dest_mac(p)
      [] a = "src_mac" -> src_mac(p)
      [] a = "ether_type" -> ether_type(p)
      [] a = "vlan_id" -> vlan_id(p)
      [] a = "vlan_priority" -> vlan_priority(p)
      [] a = "payload" -> payload(p)
      [] OTHER -> payload_size(p)

\* the byte offsets of data_ an accessor reads, or hands out as the payload
accessor_reads(a, p) ==
    CASE a = "dest_mac" ->
            IF ~p.valid \/ Len(p.data) < 6 THEN {} ELSE 0..5
      [] a = "src_mac" ->
            IF ~p.valid \/ Len(p.data) < 12 THEN {} ELSE 6..11
      [] a = "ether_type" ->
            IF ~p.valid THEN {}
            ELSE IF p.has_vlan_tag
            THEN (IF Len(p.data) < 18 THEN {} ELSE {16, 17})
            ELSE {12, 13}
      [] a \in {"vlan_id", "vlan_priority"} ->
            IF ~p.valid \/ ~p.has_vlan_tag \/ Len(p.data) < 16 THEN {} ELSE {14, 15}
      [] a = "payload" ->
            IF ~p.valid \/ Len(p.data) <= header_size(p) THEN {}
            ELSE header_size(p)..(Len(p.data) - 1)
      [] OTHER -> {}

NoAccess == [name |-> "none", value |-> 0, reads |-> {}]

\* parser.parse(range): the parser is re-seated
Reparse(kind, len) ==
    /\ px' = frame_parser_reparse(px, ByteRange(kind, len))
    /\ px_ret' = [called |-> TRUE,
                  value |-> frame_parser_reparse(px, ByteRange(kind, len)).valid,
                  reads |-> parse_reads(ByteRange(kind, len)),
                  before |-> IF px_ret.called THEN (IF px.valid THEN "valid" ELSE "invalid")
                             ELSE "fresh"]
    /\ px_acc' = NoAccess

\* one accessor is called on the parser
Access(a) ==
    /\ px_acc' = [name |-> a, value |-> accessor_value(a, px), reads |-> accessor_reads(a, px)]
    /\ UNCHANGED <<px, px_ret>>

PxIdle ==
    /\ px = frame_parser_default
    /\ px_ret = [called |-> FALSE, value |-> FALSE, reads |-> {}, before |-> "fresh"]
    /\ px_acc = NoAccess

PxStep ==
    \/ \E kind \in RangeKinds, len \in 0..MaxRange : Reparse(kind, len)
    \/ \E a \in Accessors : Access(a)

(***************************************************************************)
(* SpecBuilder: one call of a builder entry point, build_into with a       *)
(* caller's buffer of every capacity up to one more than the largest frame.*)
(***************************************************************************)
Capacities == 0..(eth_vlan_header_size + MaxPayload + 1)

\* the caller's buffer before the call: every octet 0xCC
Filled(n) == [i \in 1..n |-> 204]

NoCall == [op |-> "none", tci |-> NoTci, et |-> 0, pl |-> <<>>, required |-> 0]
NoBuilt == [ok |-> FALSE, err |-> "success", bytes |-> <<>>, n |-> 0]

\* frame_builder{}.set_dest(..)...set_payload(pl).build_into(buffer)
CallBuildInto ==
    \E et \in EtherTypes, pl \in Payloads, cap \in Capacities :
        /\ b_call.op = "none"
        /\ b_call' = [op |-> "build_into", tci |-> NoTci, et |-> et, pl |-> pl,
                      required |-> eth_header_size + Len(pl)]
        /\ b_buf' = [before |-> Filled(cap),
                     after |-> frame_builder_build_into(MacA, MacB, et, pl, Filled(cap)).buffer]
        /\ b_res' = [ok |-> frame_builder_build_into(MacA, MacB, et, pl, Filled(cap)).ok,
                     err |-> frame_builder_build_into(MacA, MacB, et, pl, Filled(cap)).err,
                     bytes |-> <<>>,
                     n |-> frame_builder_build_into(MacA, MacB, et, pl, Filled(cap)).n]
        /\ UNCHANGED little_endian

\* vlan_frame_builder{}.set_dest(..)...set_payload(pl).build_into(buffer)
CallVlanBuildInto ==
    \E pr \in Priorities, dei \in BOOLEAN, vid \in VlanIds, pl \in Payloads,
       cap \in Capacities :
        LET tci == [priority |-> pr, dei |-> dei, vlan_id |-> vid]
            r == vlan_frame_builder_build_into(MacA, MacB, tci, eth_p_custom, pl, Filled(cap))
        IN
        /\ b_call.op = "none"
        /\ b_call' = [op |-> "vlan_build_into", tci |-> tci, et |-> eth_p_custom, pl |-> pl,
                      required |-> eth_vlan_header_size + Len(pl)]
        /\ b_buf' = [before |-> Filled(cap), after |-> r.buffer]
        /\ b_res' = [ok |-> r.ok, err |-> r.err, bytes |-> <<>>, n |-> r.n]
        /\ UNCHANGED little_endian

\* vlan_frame_builder{}.set_dest(..)...set_payload(pl).build()
CallVlanBuild ==
    \E pr \in Priorities, dei \in BOOLEAN, vid \in VlanIds, et \in EtherTypes,
       pl \in Payloads :
        LET tci == [priority |-> pr, dei |-> dei, vlan_id |-> vid]
            r == vlan_frame_builder_build(MacA, MacB, tci, et, pl)
        IN
        /\ b_call.op = "none"
        /\ b_call' = [op |-> "vlan_build", tci |-> tci, et |-> et, pl |-> pl,
                      required |-> eth_vlan_header_size + Len(pl)]
        /\ b_buf' = [before |-> <<>>, after |-> <<>>]
        /\ b_res' = [ok |-> r.ok, err |-> r.err, bytes |-> r.bytes, n |-> Len(r.bytes)]
        /\ UNCHANGED little_endian

\* build_vlan_frame(dest, src, tci, inner_ether_type, payload)
CallBuildVlanFrame ==
    \E dst \in Macs, pr \in Priorities, dei \in BOOLEAN, vid \in VlanIds, pl \in Payloads :
        LET tci == [priority |-> pr, dei |-> dei, vlan_id |-> vid]
            r == build_vlan_frame(dst, MacB, tci, eth_p_custom, pl)
        IN
        /\ b_call.op = "none"
        /\ b_call' = [op |-> "build_vlan_frame", tci |-> tci, et |-> eth_p_custom, pl |-> pl,
                      required |-> eth_vlan_header_size + Len(pl)]
        /\ b_buf' = [before |-> <<>>, after |-> <<>>]
        /\ b_res' = [ok |-> r.ok, err |-> r.err, bytes |-> r.bytes, n |-> Len(r.bytes)]
        /\ UNCHANGED little_endian

BdIdle ==
    /\ b_call = NoCall
    /\ b_buf = [before |-> <<>>, after |-> <<>>]
    /\ b_res = NoBuilt

BdStep == CallBuildInto \/ CallVlanBuildInto \/ CallVlanBuild \/ CallBuildVlanFrame

(***************************************************************************)
(* SpecSend: one send_data call of a session, for every configuration,     *)
(* peer MAC and payload of the domains, on a host of either byte order.    *)
(***************************************************************************)
\* hybrid_config: vlan_priority, vlan_id, data_protocol
Configs ==
    [vlan_priority : Priorities, vlan_id : VlanIds, data_protocol : {eth_p_custom, 2048}]

NoSend == [cfg |-> [vlan_priority |-> 7, vlan_id |-> 10, data_protocol |-> eth_p_custom],
           peer |-> NullMac, local |-> NullMac, pl |-> <<>>, called |-> FALSE]

\* hybrid_endpoint::build_vlan_frame(payload)
hybrid_endpoint_build_vlan_frame(cfg, peer, local, pl) ==
    build_vlan_frame(peer, local,
                     [priority |-> cfg.vlan_priority, dei |-> FALSE, vlan_id |-> cfg.vlan_id],
                     cfg.data_protocol, pl)

\* hybrid_endpoint::send_data(payload): the frames handed to ::sendto and
\* the void_result, when the data socket is valid or not and ::sendto
\* succeeds or not
send_data_of(cfg, peer, local, pl, sock_valid, sendto_ok) ==
    LET frame_result == hybrid_endpoint_build_vlan_frame(cfg, peer, local, pl) IN
    IF ~frame_result.ok THEN [wire |-> <<>>, err |-> frame_result.err]
    ELSE IF ~sock_valid THEN [wire |-> <<>>, err |-> "socket_creation_failed"]
    ELSE IF ~sendto_ok THEN [wire |-> <<frame_result.bytes>>, err |-> "socket_send_failed"]
    ELSE [wire |-> <<frame_result.bytes>>, err |-> "success"]

SendData ==
    \E cfg \in Configs, peer \in Macs, pl \in Payloads, sock_valid \in BOOLEAN,
       sendto_ok \in BOOLEAN :
        /\ ~sd_call.called
        /\ sd_call' = [cfg |-> cfg, peer |-> peer, local |-> MacB, pl |-> pl, called |-> TRUE]
        /\ sd_wire' = send_data_of(cfg, peer, MacB, pl, sock_valid, sendto_ok).wire
        /\ sd_res' = send_data_of(cfg, peer, MacB, pl, sock_valid, sendto_ok).err
        /\ UNCHANGED little_endian

SdIdle ==
    /\ sd_call = NoSend
    /\ sd_wire = <<>>
    /\ sd_res = "success"

(***************************************************************************)
(* The specifications.                                                     *)
(***************************************************************************)
vars == <<codec_vars, hs_vars, ss_vars, hd_vars, px_vars, bd_vars, sd_vars, rx_vars, cn_vars, lb_vars, nd_vars, ac_vars, bo_vars>>

CodecInit ==
    /\ little_endian \in BOOLEAN
    /\ CodecIdle
    /\ HsIdle
    /\ h_mac = [r \in Roles |-> NullMac]
    /\ SsIdle
    /\ HdIdle /\ hd_class = "raw_socket"
    /\ PxIdle
    /\ BdIdle
    /\ SdIdle
    /\ RxIdle
    /\ CnIdle
    /\ LbIdle
    /\ NdIdle
    /\ AcIdle
    /\ BoIdle

CodecNext == (Build \/ BuildVlan \/ ParseBuilt) /\ UNCHANGED <<hs_vars, ss_vars, hd_vars, px_vars, bd_vars, sd_vars, rx_vars, cn_vars, lb_vars, nd_vars, ac_vars, bo_vars>>

SpecCodec == CodecInit /\ [][CodecNext]_vars

HandshakeInit ==
    /\ little_endian = TRUE
    /\ CodecIdle
    /\ HsInit
    /\ SsIdle
    /\ HdIdle /\ hd_class = "raw_socket"
    /\ PxIdle
    /\ BdIdle
    /\ SdIdle
    /\ RxIdle
    /\ CnIdle
    /\ LbIdle
    /\ NdIdle
    /\ AcIdle
    /\ BoIdle

HandshakeNext == HsStep /\ UNCHANGED <<codec_vars, ss_vars, hd_vars, px_vars, bd_vars, sd_vars, rx_vars, cn_vars, lb_vars, nd_vars, ac_vars, bo_vars>>

SpecHandshake == HandshakeInit /\ [][HandshakeNext]_vars

\* the steps of the two roles that need no failure of a TCP call: both run
\* on threads the OS schedules and the stream delivers the octets sent, so
\* such a step is eventually taken while it stays possible
HandshakeProgress ==
    /\ \/ SrvListen \/ SrvAccept \/ SrvSend \/ SrvRecv \/ SrvRecvEof
       \/ CliConnect \/ CliRecv \/ CliRecvEof \/ CliSend
    /\ UNCHANGED <<codec_vars, ss_vars, hd_vars, px_vars, bd_vars, sd_vars, rx_vars, cn_vars, lb_vars, nd_vars, ac_vars, bo_vars>>

SpecHandshakeLive == SpecHandshake /\ WF_vars(HandshakeProgress)

SessionInit ==
    /\ little_endian = TRUE
    /\ CodecIdle
    /\ HsIdle
    /\ h_mac = [r \in Roles |-> NullMac]
    /\ SsIdle
    /\ HdIdle /\ hd_class = "raw_socket"
    /\ PxIdle
    /\ BdIdle
    /\ SdIdle
    /\ RxIdle
    /\ CnIdle
    /\ LbIdle
    /\ NdIdle
    /\ AcIdle
    /\ BoIdle

SessionNext == SsStep /\ UNCHANGED <<codec_vars, hs_vars, hd_vars, px_vars, bd_vars, sd_vars, rx_vars, cn_vars, lb_vars, nd_vars, ac_vars, bo_vars>>

SpecSession == SessionInit /\ [][SessionNext]_vars

HandleInit ==
    /\ little_endian = TRUE
    /\ CodecIdle
    /\ HsIdle
    /\ h_mac = [r \in Roles |-> NullMac]
    /\ SsIdle
    /\ HdIdle
    /\ hd_class \in SocketClasses
    /\ PxIdle
    /\ BdIdle
    /\ SdIdle
    /\ RxIdle
    /\ CnIdle
    /\ LbIdle
    /\ NdIdle
    /\ AcIdle
    /\ BoIdle

HandleNext == HdStep /\ UNCHANGED <<codec_vars, hs_vars, ss_vars, px_vars, bd_vars, sd_vars, rx_vars, cn_vars, lb_vars, nd_vars, ac_vars, bo_vars>>

SpecHandle == HandleInit /\ [][HandleNext]_vars

ParserInit ==
    /\ little_endian = TRUE
    /\ CodecIdle
    /\ HsIdle
    /\ h_mac = [r \in Roles |-> NullMac]
    /\ SsIdle
    /\ HdIdle /\ hd_class = "raw_socket"
    /\ PxIdle
    /\ BdIdle
    /\ SdIdle
    /\ RxIdle
    /\ CnIdle
    /\ LbIdle
    /\ NdIdle
    /\ AcIdle
    /\ BoIdle

ParserNext == PxStep /\ UNCHANGED <<codec_vars, hs_vars, ss_vars, hd_vars, bd_vars, sd_vars, rx_vars, cn_vars, lb_vars, nd_vars, ac_vars, bo_vars>>

SpecParser == ParserInit /\ [][ParserNext]_vars

BuilderInit ==
    /\ little_endian \in BOOLEAN
    /\ CodecIdle
    /\ HsIdle
    /\ h_mac = [r \in Roles |-> NullMac]
    /\ SsIdle
    /\ HdIdle /\ hd_class = "raw_socket"
    /\ PxIdle
    /\ BdIdle
    /\ SdIdle
    /\ RxIdle
    /\ CnIdle
    /\ LbIdle
    /\ NdIdle
    /\ AcIdle
    /\ BoIdle

BuilderNext ==
    BdStep /\ UNCHANGED <<c_op, c_in, c_out, parser, c_parsed, hs_vars, ss_vars, hd_vars, px_vars, sd_vars, rx_vars, cn_vars, lb_vars, nd_vars, ac_vars, bo_vars>>

SpecBuilder == BuilderInit /\ [][BuilderNext]_vars

SendInit ==
    /\ little_endian \in BOOLEAN
    /\ CodecIdle
    /\ HsIdle
    /\ h_mac = [r \in Roles |-> NullMac]
    /\ SsIdle
    /\ HdIdle /\ hd_class = "raw_socket"
    /\ PxIdle
    /\ BdIdle
    /\ SdIdle
    /\ RxIdle
    /\ CnIdle
    /\ LbIdle
    /\ NdIdle
    /\ AcIdle
    /\ BoIdle

SendNext ==
    SendData /\ UNCHANGED <<c_op, c_in, c_out, parser, c_parsed, hs_vars, ss_vars, hd_vars,
                            px_vars, bd_vars, rx_vars, cn_vars, lb_vars, nd_vars, ac_vars, bo_vars>>

SpecSend == SendInit /\ [][SendNext]_vars


ReceiverInit ==
    /\ little_endian = TRUE
    /\ CodecIdle
    /\ HsIdle
    /\ h_mac = [r \in Roles |-> NullMac]
    /\ SsIdle
    /\ HdIdle /\ hd_class = "raw_socket"
    /\ PxIdle
    /\ BdIdle
    /\ SdIdle
    /\ RxIdle
    /\ CnIdle
    /\ LbIdle
    /\ NdIdle
    /\ AcIdle
    /\ BoIdle

ReceiverNext == RxStep /\ UNCHANGED <<codec_vars, hs_vars, hd_vars, px_vars, bd_vars, sd_vars, cn_vars, lb_vars, nd_vars, ac_vars, bo_vars>>

SpecReceiver == ReceiverInit /\ [][ReceiverNext]_vars

ConnectInit ==
    /\ little_endian = TRUE
    /\ CodecIdle
    /\ HsIdle
    /\ h_mac = [r \in Roles |-> NullMac]
    /\ SsIdle
    /\ HdIdle /\ hd_class = "raw_socket"
    /\ PxIdle
    /\ BdIdle
    /\ SdIdle
    /\ RxIdle
    /\ CnIdle
    /\ LbIdle
    /\ NdIdle
    /\ AcIdle
    /\ BoIdle

ConnectNext == CnStep /\ UNCHANGED <<codec_vars, hs_vars, ss_vars, hd_vars, px_vars, bd_vars, sd_vars, rx_vars, lb_vars, nd_vars, ac_vars, bo_vars>>

SpecConnect == ConnectInit /\ [][ConnectNext]_vars

LibraryInit ==
    /\ little_endian = TRUE
    /\ CodecIdle
    /\ HsIdle
    /\ h_mac = [r \in Roles |-> NullMac]
    /\ SsIdle
    /\ HdIdle /\ hd_class = "raw_socket"
    /\ PxIdle
    /\ BdIdle
    /\ SdIdle
    /\ RxIdle
    /\ CnIdle
    /\ LbIdle
    /\ NdIdle
    /\ AcIdle
    /\ BoIdle

LibraryNext == LbStep /\ UNCHANGED <<codec_vars, hs_vars, ss_vars, hd_vars, px_vars, bd_vars, sd_vars, rx_vars, cn_vars, nd_vars, ac_vars, bo_vars>>

SpecLibrary == LibraryInit /\ [][LibraryNext]_vars

NodeInit ==
    /\ little_endian \in BOOLEAN
    /\ CodecIdle
    /\ HsIdle
    /\ h_mac = [r \in Roles |-> NullMac]
    /\ SsIdle
    /\ HdIdle /\ hd_class = "raw_socket"
    /\ PxIdle
    /\ BdIdle
    /\ SdIdle
    /\ RxIdle
    /\ CnIdle
    /\ LbIdle
    /\ NdInit
    /\ AcIdle
    /\ BoIdle

NodeNext == NdStep /\ UNCHANGED <<codec_vars, hs_vars, ss_vars, hd_vars, px_vars, bd_vars, sd_vars, rx_vars, cn_vars, lb_vars, ac_vars, bo_vars>>

SpecNode == NodeInit /\ [][NodeNext]_vars

\* cancellation depends on the loops' control flow and not on how frames are
\* built: the runs checked for it build untagged frames on one byte order
NodeLiveInit ==
    /\ little_endian = TRUE
    /\ CodecIdle
    /\ HsIdle
    /\ h_mac = [r \in Roles |-> NullMac]
    /\ SsIdle
    /\ HdIdle /\ hd_class = "raw_socket"
    /\ PxIdle
    /\ BdIdle
    /\ SdIdle
    /\ RxIdle
    /\ CnIdle
    /\ LbIdle
    /\ NdInit
    /\ AcIdle
    /\ BoIdle
    /\ ~nd.cfg.use_vlan /\ nd.cfg.vlan_id = 10

\* the process runs on a thread the OS schedules, and every wait of a loop
\* is bounded: a step of the loop that is possible is eventually taken
SpecNodeLive == NodeLiveInit /\ [][NodeNext]_vars /\ WF_vars(NodeNext)

ServerWaitInit ==
    /\ little_endian = TRUE
    /\ CodecIdle
    /\ HsIdle
    /\ h_mac = [r \in Roles |-> NullMac]
    /\ SsIdle
    /\ HdIdle /\ hd_class = "raw_socket"
    /\ PxIdle
    /\ BdIdle
    /\ SdIdle
    /\ RxIdle
    /\ CnIdle
    /\ LbIdle
    /\ NdIdle
    /\ AcIdle
    /\ BoIdle

ServerWaitNext == AcStep /\ UNCHANGED <<codec_vars, hs_vars, ss_vars, hd_vars, px_vars, bd_vars, sd_vars, rx_vars, cn_vars, lb_vars, nd_vars, bo_vars>>

SpecServerWait == ServerWaitInit /\ [][ServerWaitNext]_vars

OrchestratorInit ==
    /\ little_endian = TRUE
    /\ CodecIdle
    /\ HsIdle
    /\ h_mac = [r \in Roles |-> NullMac]
    /\ SsIdle
    /\ HdIdle /\ hd_class = "raw_socket"
    /\ PxIdle
    /\ BdIdle
    /\ SdIdle
    /\ RxIdle
    /\ CnIdle
    /\ LbIdle
    /\ NdIdle
    /\ AcIdle
    /\ BoIdle

OrchestratorNext == BoStep /\ UNCHANGED <<codec_vars, hs_vars, ss_vars, hd_vars, px_vars, bd_vars, sd_vars, rx_vars, cn_vars, lb_vars, nd_vars, ac_vars>>

SpecOrchestrator == OrchestratorInit /\ [][OrchestratorNext]_vars
(***************************************************************************)
(* C1: for every dst, src, ethertype and payload, a parser constructed     *)
(* over the bytes returned by build_simple_frame is valid and its          *)
(* accessors return exactly the inputs.                                    *)
(***************************************************************************)
C1_RoundTrip ==
    (c_op = "build" /\ c_parsed) =>
        /\ is_valid(parser)
        /\ dest_mac(parser) = c_in.dst
        /\ src_mac(parser) = c_in.src
        /\ ether_type(parser) = c_in.et
        /\ payload(parser) = c_in.pl

\* the round trip took place for an ethertype whose two octets differ
C1_Witness ==
    c_op = "build" /\ c_parsed /\ c_in.et = 2048 /\ Len(c_in.pl) = MaxPayload

(***************************************************************************)
(* C2: for every valid TCI, a parser over the bytes returned by            *)
(* build_vlan_frame is valid, reports has_vlan() and returns exactly the   *)
(* given dst, src, priority, vlan_id, inner ethertype and payload.         *)
(***************************************************************************)
C2_VlanRoundTrip ==
    (c_op = "build_vlan" /\ c_parsed /\ vlan_tci_is_valid(c_in.tci)) =>
        /\ is_valid(parser)
        /\ has_vlan(parser)
        /\ dest_mac(parser) = c_in.dst
        /\ src_mac(parser) = c_in.src
        /\ vlan_priority(parser) = c_in.tci.priority
        /\ vlan_id(parser) = c_in.tci.vlan_id
        /\ ether_type(parser) = c_in.et
        /\ payload(parser) = c_in.pl

C2_Witness ==
    /\ c_op = "build_vlan" /\ c_parsed /\ vlan_tci_is_valid(c_in.tci)
    /\ c_in.tci.priority = 7 /\ c_in.tci.vlan_id = 10 /\ c_in.et = eth_p_custom

(***************************************************************************)
(* C3: every 16-bit field the builders write is stored high octet first,   *)
(* on hosts of either byte order: the ethertype at bytes 12..13 of an      *)
(* untagged frame; TPID 0x8100 at 12..13, the TCI at 14..15 and the inner  *)
(* ethertype at 16..17 of a tagged frame.                                  *)
(***************************************************************************)
HighFirst(x) == <<x \div 256, x % 256>>

C3_BigEndianFields ==
    /\ (c_op = "build" /\ c_out.ok) =>
            SubSeq(c_out.bytes, 13, 14) = HighFirst(c_in.et)
    /\ (c_op = "build_vlan" /\ c_out.ok) =>
            /\ SubSeq(c_out.bytes, 13, 14) = HighFirst(eth_p_8021q)
            /\ SubSeq(c_out.bytes, 15, 16) = HighFirst(vlan_tci_encode(c_in.tci))
            /\ SubSeq(c_out.bytes, 17, 18) = HighFirst(c_in.et)

\* the tagged frame of the spec's scenario 2 was built
C3_Witness ==
    /\ c_op = "build_vlan" /\ c_out.ok
    /\ c_in.tci = [priority |-> 7, dei |-> FALSE, vlan_id |-> 10]
    /\ c_in.et = eth_p_custom

(***************************************************************************)
(* C4: whenever run_server (local MAC S) and run_client (local MAC C) run  *)
(* against each other and both return a value, run_server returns C and    *)
(* run_client returns S.                                                   *)
(***************************************************************************)
C4_MacExchange ==
    (/\ Returned("server") /\ h_res["server"].state = "value"
     /\ Returned("client") /\ h_res["client"].state = "value") =>
        /\ h_res["server"].mac = h_mac["client"]
        /\ h_res["client"].mac = h_mac["server"]

\* the exchange of the spec's scenario 4 completed on both sides
C4_Witness ==
    /\ Returned("server") /\ h_res["server"].state = "value"
    /\ Returned("client") /\ h_res["client"].state = "value"
    /\ h_mac["server"] = MacA /\ h_mac["client"] = MacB

(***************************************************************************)
(* C5: the factories open the raw data socket only after the handshake     *)
(* returned a peer MAC; a failed handshake makes the factory return        *)
(* exactly the handshake's error without creating a raw socket; a failed   *)
(* raw-socket creation makes it return that error; and no data-plane send  *)
(* or receive of a session happens before the session's handshake send and *)
(* receive have completed.                                                 *)
(***************************************************************************)
C5_HandshakeBeforeData ==
    \A r \in Roles :
        /\ f_raw[r] # "none" => (Returned(r) /\ h_res[r].state = "value")
        /\ (h_pc[r] = "done" /\ h_res[r].state = "error") =>
                /\ f_res[r] = [state |-> "error", err |-> h_res[r].err]
                /\ f_raw[r] = "none"
        /\ (h_pc[r] = "done" /\ f_raw[r] \notin {"none", "ok"}) =>
                f_res[r] = [state |-> "error", err |-> f_raw[r]]
        /\ f_res[r].state = "session" => (h_res[r].state = "value" /\ f_raw[r] = "ok")
        /\ (d_io[r].sent \/ d_io[r].rcvd) => (h_io[r].sent /\ h_io[r].rcvd)

\* one factory failed in its handshake, the other returned a session that
\* has sent and received data
C5_Witness ==
    \E r \in Roles :
        /\ d_io[r].sent /\ d_io[r].rcvd
        /\ h_pc[Peer(r)] = "done" /\ h_res[Peer(r)].state = "error"


\* C10: the data socket of a session a factory returned is a raw socket for
\* all protocols bound to the session's interface.
C10_DataSocketBound ==
    \A r \in Roles : f_res[r].state = "session" =>
        /\ f_sock[r].proto = "all"
        /\ f_sock[r].bound_interface = InterfaceOf(r)

\* C10: a factory returned a session.
C10_Witness == \E r \in Roles : f_res[r].state = "session" /\ f_sock[r].fd = DataFd

\* C16: in both roles a receive that yields fewer than 6 octets, 0 at end of
\* stream included, makes the handshake return handshake_failed and no MAC;
\* the client has then sent nothing.
C16_ShortReadFails ==
    \A r \in Roles :
        h_io[r].octets \in 0..(mac_address_size - 1) =>
            /\ Returned(r)
            /\ h_res[r] = [state |-> "error", mac |-> NullMac, err |-> "handshake_failed"]
            /\ r = "client" => (~h_io[r].sent /\ h_chan["c2s"] = <<>>)

\* C16: the client read 3 of the server's octets and gave up, and the
\* server then read end of stream.
C16_Witness ==
    /\ h_io["client"].octets = 3
    /\ h_io["server"].octets = 0
    /\ h_res["server"].err = "handshake_failed"

\* a role blocks in receive: nothing is in flight to it and its peer has
\* not closed the stream
WaitsInReceive(r) ==
    /\ h_pc[r] = "recv"
    /\ h_chan[InChan(r)] = <<>>
    /\ ~Returned(Peer(r))

\* the server has received only after it sent, the client has sent only
\* after it received the server's 6 octets, and the two roles do not both
\* block in receive
HandshakeOrder ==
    /\ h_io["server"].octets >= 0 => h_io["server"].sent
    /\ h_io["client"].sent => (h_io["client"].rcvd /\ h_io["client"].octets = mac_address_size)
    /\ ~(WaitsInReceive("server") /\ WaitsInReceive("client"))

\* C17: the server sends before it receives and the client receives the
\* server's 6 octets before it sends, so the two never both wait in
\* receive; and once the client's connection is established both roles
\* eventually return.
C17_ServerSendsFirst ==
    /\ []HandshakeOrder
    /\ (h_io["client"].connected ~> (Returned("server") /\ Returned("client")))

\* C17: the server waits in receive after it sent its MAC and the client
\* has taken the 6 octets.
C17_Witness ==
    /\ WaitsInReceive("server")
    /\ h_io["server"].sent
    /\ h_pc["client"] = "send" /\ h_io["client"].octets = mac_address_size

\* C38: the handshake never succeeds on one peer while it fails on the
\* other: once run_server and run_client have both returned, either both
\* returned the other's MAC or both returned an error, also when a send
\* transferred fewer than 6 octets.
C38_BothOrNeither ==
    (Returned("server") /\ Returned("client")) =>
        (h_res["client"].state = "value" <=> h_res["server"].state = "value")

\* C38: run_client returned the server's MAC after a send that transferred
\* fewer than 6 octets, and run_server returned handshake_failed on them.
C38_Witness ==
    /\ Returned("server") /\ Returned("client")
    /\ h_res["client"].state = "value"
    /\ h_io["server"].octets \in 1..(mac_address_size - 1)
    /\ h_res["server"].err = "handshake_failed"

\* C39: every session returned by a successful create_server or
\* create_client satisfies is_valid(): its data socket is open and its peer
\* MAC is non-null, for every six-octet value the peer sent in the
\* handshake, 00:00:00:00:00:00 included.
C39_FactorySessionValid ==
    \A r \in Roles : f_res[r].state = "session" => hybrid_endpoint_is_valid(r)

\* C39: a factory returned a session whose peer's interface has the
\* hardware address 00:00:00:00:00:00, all 6 octets of which arrived.
C39_Witness ==
    \E r \in Roles :
        /\ f_res[r].state = "session"
        /\ h_mac[Peer(r)] = NullMac
        /\ h_io[r].octets = mac_address_size
        /\ f_sock[r].fd # InvalidFd

\* C6: no worker ever calls a receive operation on a data socket that has
\* been closed or moved out of its session object.
C6_NoReceiveOnReleasedSocket ==
    ~(ev.type = "worker_receive" /\ ev.outcome = "released")

\* C6: a session whose receiver is executing is the source of a move.
C6_Witness ==
    /\ cpc.op \in {"mctor", "massign"}
    /\ Executing(cpc.other)
    /\ obj[cpc.other].fd = InvalidFd

\* C7: each start_receiver that returns on a session with no receiver
\* executing leaves a worker thread executing the receiver loop.
C7_StartSpawnsWorker ==
    (ev.type = "start" /\ ~ev.before) => ev.executing

\* C7: start_receiver returned after spawning a worker.
C7_Witness == ev.type = "start" /\ ev.spawned /\ Executing(ev.o)

\* C8: when stop_receiver returns, is_running() is false and no worker
\* thread of the session is executing.
C8_StopLeavesStopped ==
    ev.type = "stop" => (~ev.running /\ ~ev.executing)

\* C8: stop_receiver returned.
C8_Witness == ev.type = "stop" /\ ~ev.running

Mismatched(k) ==
    /\ k \in FrameKinds
    /\ is_valid(frame_parser_parse(WireFrame(k)))
    /\ ether_type(frame_parser_parse(WireFrame(k))) # config_data_protocol

\* C9 (as amended): for a valid frame whose (inner) EtherType differs from
\* the configured data protocol, receive_data returns the error
\* invalid_frame_size and no message, and the worker invokes no callback and
\* goes on with its loop.
C9_MismatchFiltered ==
    /\ (ev.type = "receive_data" /\ Mismatched(ev.k)) =>
            ev.res = [state |-> "error", err |-> "invalid_frame_size", msg |-> NoMessage]
    /\ (ev.type = "dispatch" /\ Mismatched(ev.k)) =>
            (ev.outcome = "continue" /\ w_pc[ev.o] = "check")

\* C9: receive_data has read a VLAN-tagged frame of another protocol while
\* the session's worker is executing.
C9_Witness ==
    /\ ev.type = "receive_data"
    /\ ev.k = "tagged_other"
    /\ ev.res.state = "error"
    /\ Executing(ev.o)

\* C9 (as stated): receive_data reports neither a message nor an error for
\* a frame of another protocol.
C9_SilentlyIgnored ==
    (ev.type = "receive_data" /\ Mismatched(ev.k)) => ev.res.state \notin {"message", "error"}


\* a send_loop call on the session is past its running_.store(true)
SendLoopExecuting(o) == sl.o = o /\ sl.pc \in {"check", "send"}

\* C37: whenever no operation of the caller is in progress, is_running()
\* of every session is true exactly when a receiver worker or a send_loop
\* call of that session is executing, also after the worker left its loop
\* on a receive error, after send_loop returned an error and after a move
\* from a Running session; and a start_receiver call that returned with no
\* loop executing before it has spawned a worker.
C37_RunningIffExecuting ==
    /\ (CallerIdle /\ sl.pc # "store") =>
            \A o \in Objs : Live(o) =>
                (obj[o].running <=> (Executing(o) \/ SendLoopExecuting(o)))
    /\ (ev.type = "start" /\ ~ev.before /\ ~SendLoopExecuting(ev.o)) => ev.spawned

\* C37: the worker has left its loop on a receive error, no send_loop is
\* executing, and a start_receiver call on that session has returned.
C37_Witness ==
    /\ ev.type = "start" /\ ~ev.before
    /\ w_pc[ev.o] = "exited"
    /\ sl.pc = "idle"
    /\ CallerIdle

\* the live handles whose fd_ is the descriptor f
Holders(f) == {h \in Handles : hd[h].life = "live" /\ hd[h].fd = f}

\* C11: each descriptor the OS handed out is held by at most one handle, is
\* never closed while a handle holds it, is closed exactly once when no
\* handle holds it any more, and a closed or moved-from handle is not valid.
C11_ClosedExactlyOnce ==
    /\ \A f \in 1..(k_next - 1) :
        /\ Cardinality(Holders(f)) <= 1
        /\ k_closes[f] = IF Holders(f) = {} THEN 1 ELSE 0
    /\ \A h \in Handles :
        hd[h].last \in {"closed", "moved_from"} => ~handle_is_valid(hd[h])

\* C11: a descriptor went through a move and was closed by the handle it
\* was moved into, while the moved-from handle still exists.
C11_Witness ==
    /\ k_closes[1] = 1
    /\ hd["s1"].last = "moved_from"
    /\ hd["s2"].last = "closed"

\* the error kinds the interface of an operation lists
ListedErrors(op) ==
    CASE op = "bind" -> {"socket_bind_failed"}
      [] op \in {"send_to", "send_raw"} -> {"socket_send_failed"}
      [] OTHER -> {"timeout", "socket_recv_failed"}

\* C21 (as amended): on a valid endpoint send_raw and send_to fail only
\* with socket_send_failed, bind only with socket_bind_failed, receive and
\* receive_with_timeout only with timeout or socket_recv_failed; on a
\* closed, moved-from or default-constructed endpoint each of them fails
\* with socket_creation_failed.
C21_ErrorKinds ==
    hd_ret.op # "none" =>
        IF hd_ret.valid
        THEN hd_ret.err \in ListedErrors(hd_ret.op) \cup {"success"}
        ELSE hd_ret.err = "socket_creation_failed"

\* C21: send_raw was called on a moved-from endpoint.
C21_Witness ==
    /\ hd_ret.op = "send_raw"
    /\ hd[hd_ret.h].last = "moved_from"
    /\ ~hd_ret.valid

\* C21 (as stated): the operations fail only with the error kinds their
\* interface lists, also on a closed or moved-from endpoint.
C21_OnlyListedErrors ==
    hd_ret.op # "none" => hd_ret.err \in ListedErrors(hd_ret.op) \cup {"success"}

\* the spec's well-formedness of a byte range
WellFormed(data) ==
    /\ Len(data) >= 14
    /\ (data[13] = 129 /\ data[14] = 0) => Len(data) >= 18

\* C12: parse returns true, and is_valid() is true afterwards, exactly when
\* the range of the latest parse call has at least 14 bytes and, with 81 00
\* at bytes 12..13, at least 18; whatever the parser held before.
C12_ParseValidity ==
    px_ret.called =>
        /\ px_ret.value = WellFormed(px.data)
        /\ is_valid(px) = WellFormed(px.data)
        /\ Len(px.data) = 13 => ~is_valid(px)
        /\ (Len(px.data) = 14 /\ ~has_vlan(px)) => is_valid(px)
        /\ (Len(px.data) = 17 /\ has_vlan(px)) => ~is_valid(px)
        /\ Len(px.data) = 18 => is_valid(px)

\* C12: a parser that was valid is re-seated onto a 17-byte tagged range.
C12_Witness ==
    /\ px_ret.called /\ px_ret.before = "valid"
    /\ Len(px.data) = 17 /\ has_vlan(px)
    /\ ~px_ret.value

\* C13: on an invalid parser the MAC accessors return the null MAC, the
\* numeric accessors 0 and payload() the empty range; no accessor and no
\* parse reads a byte offset outside the borrowed range.
C13_InvalidAccessors ==
    /\ (px_acc.name # "none" /\ ~is_valid(px)) =>
            px_acc.value = (CASE px_acc.name \in {"dest_mac", "src_mac"} -> NullMac
                              [] px_acc.name = "payload" -> <<>>
                              [] OTHER -> 0)
    /\ px_acc.reads \subseteq 0..(Len(px.data) - 1)
    /\ px_ret.reads \subseteq 0..(Len(px.data) - 1)

\* C13: vlan_id() is called on the invalid parser of a 17-byte tagged range.
C13_Witness ==
    /\ px_acc.name = "vlan_id"
    /\ ~is_valid(px) /\ has_vlan(px) /\ Len(px.data) = 17

\* C40: after parse, for every byte range, has_vlan() is true only if the
\* parser is valid, and header_size() is 18 exactly when is_valid() and
\* has_vlan() both hold and 14 otherwise.
C40_VlanOnlyIfValid ==
    px_ret.called =>
        /\ has_vlan(px) => is_valid(px)
        /\ header_size(px) = (IF is_valid(px) /\ has_vlan(px) THEN 18 ELSE 14)

\* C40: parse was called on a range of 14..17 bytes with 81 00 at bytes
\* 12..13 and returned false.
C40_Witness ==
    /\ px_ret.called /\ ~px_ret.value
    /\ Len(px.data) \in 14..17
    /\ U16At(px.data, 12) = eth_p_8021q

VlanCalls == {"vlan_build", "vlan_build_into", "build_vlan_frame"}

\* the call failed with error e, returned no frame and left the caller's
\* buffer as it was
FailedWith(e) ==
    /\ ~b_res.ok /\ b_res.err = e
    /\ b_res.bytes = <<>> /\ b_res.n = 0
    /\ b_buf.after = b_buf.before

\* C14: the three tagged build entry points fail with invalid_vlan_id when
\* vlan_id > 4095 and with invalid_priority when priority > 7 and
\* vlan_id <= 4095, return no frame and write nothing to the buffer.
C14_TciRejected ==
    b_call.op \in VlanCalls =>
        /\ b_call.tci.vlan_id > 4095 => FailedWith("invalid_vlan_id")
        /\ (b_call.tci.priority > 7 /\ b_call.tci.vlan_id <= 4095) =>
                FailedWith("invalid_priority")

\* C14: build_into was called with priority 8, a valid VLAN id and a buffer
\* large enough for the frame.
C14_Witness ==
    /\ b_call.op = "vlan_build_into"
    /\ b_call.tci.priority = 8 /\ b_call.tci.vlan_id = 10
    /\ Len(b_buf.before) >= b_call.required
    /\ b_res.err = "invalid_priority"

\* C15 (as amended): build_into fails with buffer_too_small and leaves the
\* buffer unchanged whenever the capacity is below the required size and,
\* for the tagged builder, the TCI is valid.
C15_BufferTooSmall ==
    (/\ b_call.op \in {"build_into", "vlan_build_into"}
     /\ Len(b_buf.before) < b_call.required
     /\ b_call.tci.priority <= 7 /\ b_call.tci.vlan_id <= 4095)
        => FailedWith("buffer_too_small")

\* C15: the tagged build_into was given a buffer one byte short.
C15_Witness ==
    /\ b_call.op = "vlan_build_into"
    /\ Len(b_buf.before) = b_call.required - 1
    /\ b_res.err = "buffer_too_small"

\* C15 (as stated): build_into of both builders fails with buffer_too_small
\* whenever the capacity is below the required size.
C15_AlwaysBufferTooSmall ==
    (/\ b_call.op \in {"build_into", "vlan_build_into"}
     /\ Len(b_buf.before) < b_call.required)
        => FailedWith("buffer_too_small")

\* the 802.1Q frame of the spec for the session's configuration
TaggedFrameOf(c) ==
    c.peer \o c.local \o <<129, 0>>
    \o HighFirst(c.cfg.vlan_priority * 8192 + c.cfg.vlan_id)
    \o HighFirst(c.cfg.data_protocol) \o c.pl

\* C18: every frame send_data hands to the data socket is the 802.1Q frame
\* with destination peer MAC, source local MAC, TCI {config.vlan_priority,
\* dei false, config.vlan_id}, inner EtherType config.data_protocol and the
\* payload; with vlan_id or priority out of range send_data returns the
\* build error and hands over nothing.
C18_SendDataFrame ==
    sd_call.called =>
        /\ \A i \in 1..Len(sd_wire) : sd_wire[i] = TaggedFrameOf(sd_call)
        /\ sd_call.cfg.vlan_id > 4095 => (sd_res = "invalid_vlan_id" /\ sd_wire = <<>>)
        /\ (sd_call.cfg.vlan_priority > 7 /\ sd_call.cfg.vlan_id <= 4095) =>
                (sd_res = "invalid_priority" /\ sd_wire = <<>>)

\* C18: send_data succeeded with the default configuration.
C18_Witness ==
    /\ sd_call.called /\ sd_res = "success" /\ Len(sd_wire) = 1
    /\ sd_call.cfg = [vlan_priority |-> 7, vlan_id |-> 10, data_protocol |-> eth_p_custom]
    /\ sd_call.peer = MacA

\* the data_message a frame of data_protocol carries, read off its octets
CarriedMessage(k) ==
    IF k = "tagged_data"
    THEN [source |-> MacB, priority |-> 7, vlan_id |-> 10, was_tagged |-> TRUE,
          payload |-> <<84>>]
    ELSE [source |-> MacB, priority |-> 0, vlan_id |-> 0, was_tagged |-> FALSE,
          payload |-> <<84>>]

RECURSIVE MessagesOf(_)
MessagesOf(ks) ==
    IF ks = <<>> THEN <<>>
    ELSE IF Head(ks) \in {"tagged_data", "untagged_data"}
    THEN <<CarriedMessage(Head(ks))>> \o MessagesOf(Tail(ks))
    ELSE MessagesOf(Tail(ks))

C20_ReceiveStepDoesNotBlock ==
    \A o \in Objs : (w_pc[o] = "recv" /\ obj[o].fd # InvalidFd) => queue # <<>>

\* C20: a worker is between its readiness wait and its receive step.
C20_Witness ==
    \E o \in Objs : w_pc[o] = "recv" /\ obj[o].fd # InvalidFd /\ queue # <<>>

\* C22: in a call of tcp_socket::connect whose ::socket returned a
\* descriptor, every call of ::connect starts before the deadline (the
\* clock at entry plus timeout); the call returns the connected stream, its
\* descriptor open, on the first attempt that succeeds, and otherwise
\* returns connection_failed with the descriptor closed.
C22_TotalDeadline ==
    /\ \A t \in cn.starts : t < cn.deadline
    /\ cn.pc \in {"check", "attempt", "sleep"} => (cn.connected = 0 /\ cn.fd_open)
    /\ (cn.pc = "returned" /\ cn.res = "stream") => (cn.connected = 1 /\ cn.fd_open)
    /\ (cn.pc = "returned" /\ cn.res # "stream") =>
            (cn.connected = 0 /\ ~cn.fd_open
             /\ (cn.res = "connection_failed" \/ (cn.res = "socket_creation_failed" /\ cn.starts = {})))
    /\ (cn.pc = "returned" /\ cn.res = "connection_failed" /\ cn.starts # {}) =>
            cn.now >= cn.deadline

\* C22: connect gave up at the deadline after two failed attempts.
C22_Witness ==
    /\ cn.pc = "returned"
    /\ cn.res = "connection_failed"
    /\ Cardinality(cn.starts) = 2
    /\ cn.timeout = 2

IsSorted(s) == \A i, j \in 1..Len(s) : i <= j => s[i] <= s[j]
Occurrences(s, v) == Cardinality({i \in 1..Len(s) : s[i] = v})

\* C26: for n >= 1 latencies the ping client reports, of the sorted
\* vector, p50 = sorted[floor(n*50/100)] and p99 = sorted[floor(n*99/100)],
\* both indices below n, so that min <= p50 <= p99 <= max; for
\* 10, 20, ..., 100 it reports min 10, max 100, avg 55, p50 60, p99 100.
C26_Percentiles ==
    lib.op = "statistics" =>
        /\ IsSorted(std_sort(lib.arg))
        /\ \A v \in {lib.arg[i] : i \in 1..Len(lib.arg)} :
                Occurrences(std_sort(lib.arg), v) = Occurrences(lib.arg, v)
        /\ Len(std_sort(lib.arg)) = Len(lib.arg)
        /\ lib.ret.p50_at = (Len(lib.arg) * 50) \div 100
        /\ lib.ret.p99_at = (Len(lib.arg) * 99) \div 100
        /\ lib.ret.p50_at < Len(lib.arg) /\ lib.ret.p99_at < Len(lib.arg)
        /\ lib.ret.p50 * 1000 = std_sort(lib.arg)[(Len(lib.arg) * 50) \div 100 + 1]
        /\ lib.ret.p99 * 1000 = std_sort(lib.arg)[(Len(lib.arg) * 99) \div 100 + 1]
        /\ lib.ret.min <= lib.ret.p50 /\ lib.ret.p50 <= lib.ret.p99
        /\ lib.ret.p99 <= lib.ret.max
        /\ \A i \in 1..Len(lib.arg) :
                lib.ret.min * 1000 <= lib.arg[i] /\ lib.arg[i] <= lib.ret.max * 1000
        /\ lib.arg = BenchLatencies =>
                /\ lib.ret.min = 10 /\ lib.ret.max = 100 /\ lib.ret.avg = 55
                /\ lib.ret.p50 = 60 /\ lib.ret.p99 = 100

\* C26: the statistics of the ten latencies 10, 20, ..., 100 were computed.
C26_Witness == lib.op = "statistics" /\ lib.arg = BenchLatencies /\ lib.ret.n = 10

WellFormedTagged(f) ==
    /\ Len(f) >= eth_vlan_header_size
    /\ f[13] = 129 /\ f[14] = 0

Stripped(f) == frame_parser_parse(lib.ret.bytes)

SameFrameUntagged(f) ==
    /\ lib.ret.ok
    /\ Len(lib.ret.bytes) = Len(f) - 4
    /\ ~has_vlan(Stripped(f))
    /\ is_valid(Stripped(f))
    /\ dest_mac(Stripped(f)) = dest_mac(frame_parser_parse(f))
    /\ src_mac(Stripped(f)) = src_mac(frame_parser_parse(f))
    /\ ether_type(Stripped(f)) = ether_type(frame_parser_parse(f))
    /\ ether_type(Stripped(f)) = f[17] * 256 + f[18]
    /\ payload(Stripped(f)) = payload(frame_parser_parse(f))
    /\ payload(Stripped(f)) = SubSeq(f, 19, Len(f))

\* C27 (as amended): for every well-formed tagged frame F whose inner
\* EtherType is not 0x8100, strip_vlan_tag(F) succeeds with a frame 4 bytes
\* shorter whose parser reports tagged = false and the same dst, src, inner
\* EtherType and payload as the parser of F.
C27_StripKeepsFrame ==
    (lib.op = "strip" /\ WellFormedTagged(lib.arg)
        /\ lib.arg[17] * 256 + lib.arg[18] # eth_p_8021q) => SameFrameUntagged(lib.arg)

\* C27: a tagged frame with a payload was stripped.
C27_Witness ==
    /\ lib.op = "strip"
    /\ WellFormedTagged(lib.arg)
    /\ Len(lib.arg) = eth_vlan_header_size + 2
    /\ lib.arg[17] * 256 + lib.arg[18] = eth_p_custom
    /\ lib.ret.ok

\* C27 (as stated): the same for every well-formed tagged frame, of any
\* inner EtherType.
C27_StripAnyInnerType ==
    (lib.op = "strip" /\ WellFormedTagged(lib.arg)) => SameFrameUntagged(lib.arg)

\* C28: for every TCI with priority <= 7 and vlan_id <= 4095 and either
\* dei, decode(encode(tci)) = tci and encode(tci) = priority<<13 | dei<<12
\* | vlan_id; encode({7,true,4095}) = 0xFFFF and encode({0,false,0}) = 0.
C28_TciRoundTrip ==
    lib.op = "tci" =>
        /\ lib.ret.decoded = lib.arg
        /\ lib.ret.encoded = lib.arg.priority * 8192 + (IF lib.arg.dei THEN 4096 ELSE 0)
                             + lib.arg.vlan_id
        /\ lib.arg = [priority |-> 7, dei |-> TRUE, vlan_id |-> 4095] => lib.ret.encoded = 65535
        /\ lib.arg = [priority |-> 0, dei |-> FALSE, vlan_id |-> 0] => lib.ret.encoded = 0

\* C28: a TCI with all three fields set went through encode and decode.
C28_Witness ==
    /\ lib.op = "tci"
    /\ lib.arg = [priority |-> 5, dei |-> TRUE, vlan_id |-> 4095]
    /\ lib.ret.encoded = 49151

LowerHex == (48..57) \cup (97..102)

\* C29: for every MAC m, m.to_string() has 17 characters, six pairs of
\* lowercase hex digits separated by ':', and from_string of it succeeds
\* and equals m.
C29_MacTextRoundTrip ==
    lib.op = "mac" =>
        /\ Len(lib.ret.text) = 17
        /\ \A i \in 1..17 : IF i % 3 = 0 THEN lib.ret.text[i] = 58
                            ELSE lib.ret.text[i] \in LowerHex
        /\ lib.ret.parsed.ok
        /\ lib.ret.parsed.bytes = lib.arg

\* C29: a MAC with letters and digits in its text went through to_string
\* and from_string.
C29_Witness ==
    /\ lib.op = "mac"
    /\ lib.arg = <<171, 9, 10, 255, 0, 171>>
    /\ lib.ret.text = <<97, 98, 58, 48, 57, 58, 48, 97, 58, 102, 102, 58, 48, 48, 58, 97, 98>>

\* s + 14 + (vlan ? 4 : 0) <= mtu, for the value s itself
Fits(s, mtu, vlan) == s.q = 0 /\ s.r + 14 + (IF vlan THEN 4 ELSE 0) <= mtu

RECURSIVE Fitting(_, _, _)
Fitting(sizes, mtu, vlan) ==
    IF sizes = <<>> THEN <<>>
    ELSE IF Fits(Head(sizes), mtu, vlan)
    THEN <<Head(sizes)>> \o Fitting(Tail(sizes), mtu, vlan)
    ELSE Fitting(Tail(sizes), mtu, vlan)

\* C30: filter_payload_sizes returns, in input order and with
\* multiplicity, exactly the elements s with s + 14 + (vlan ? 4 : 0) <= mtu,
\* for every value of the element type; the eight benchmark sizes with mtu
\* 1500 untagged give 64, 128, 256, 512, 1024, 1400.
C30_FilterExact ==
    lib.op = "filter" =>
        /\ lib.ret = Fitting(lib.arg.sizes, lib.arg.mtu, lib.arg.vlan)
        /\ (lib.arg.sizes = BenchSizes /\ lib.arg.mtu = 1500 /\ ~lib.arg.vlan) =>
                lib.ret = [i \in 1..6 |-> Small(<<64, 128, 256, 512, 1024, 1400>>[i])]

\* C30: a list holding a size above INT_MAX was filtered.
C30_Witness ==
    /\ lib.op = "filter"
    /\ \E i \in 1..Len(lib.arg.sizes) : lib.arg.sizes[i].q > 0

\* the bytes the socket handed to the parser are a structurally valid frame
IpcValid(data) ==
    /\ Len(data) >= 14
    /\ U16At(data, 12) = eth_p_8021q => Len(data) >= 18

\* the type field of a valid frame, after the tag if there is one
IpcType(data) ==
    IF U16At(data, 12) = eth_p_8021q THEN U16At(data, 16) ELSE U16At(data, 12)

IpcHeader(data) == IF U16At(data, 12) = eth_p_8021q THEN 18 ELSE 14

\* C31: ipc_channel::receive and receive_with_timeout return the payload
\* (the received bytes after the 14- or 18-byte header) of a valid frame
\* whose ethertype equals the configured protocol id, an empty payload and
\* no error for a valid frame of any other ethertype, and
\* invalid_frame_size only for a structurally invalid frame.
C31_IpcReceive ==
    lib.op = "ipc_receive" =>
        /\ (lib.arg.sock_err = "none" /\ IpcValid(lib.arg.received)
                /\ IpcType(lib.arg.received) = lib.arg.protocol_id) =>
              /\ lib.ret.ok
              /\ lib.ret.bytes = SubSeq(lib.arg.received, IpcHeader(lib.arg.received) + 1,
                                        Len(lib.arg.received))
        /\ (lib.arg.sock_err = "none" /\ IpcValid(lib.arg.received)
                /\ IpcType(lib.arg.received) # lib.arg.protocol_id) =>
              lib.ret.ok /\ lib.ret.bytes = <<>>
        /\ lib.ret.err = "invalid_frame_size" =>
              lib.arg.sock_err = "none" /\ ~IpcValid(lib.arg.received)
        /\ (lib.arg.sock_err = "none" /\ ~IpcValid(lib.arg.received)) =>
              lib.ret.err = "invalid_frame_size"
        /\ Len(lib.arg.frame) <= lib.arg.size => lib.arg.received \in {lib.arg.frame, <<>>}

\* C31: a tagged frame of the configured type was received whole and its
\* two payload bytes were returned.
C31_Witness ==
    /\ lib.op = "ipc_receive" /\ lib.arg.sock_err = "none"
    /\ lib.arg.received = lib.arg.frame /\ Len(lib.arg.frame) = 20
    /\ U16At(lib.arg.frame, 12) = eth_p_8021q
    /\ IpcType(lib.arg.frame) = lib.arg.protocol_id
    /\ lib.ret.ok /\ Len(lib.ret.bytes) = 2

\* space, tab, newline, carriage return, or '/'
WhitespaceOrSeparator(c) == c \in {32, 9, 10, 13, 47}

Rejectable(name) ==
    \/ Len(name) = 0
    \/ Len(name) >= IFNAMSIZ
    \/ \E i \in 1..Len(name) : WhitespaceOrSeparator(name[i])

\* C32: interface_info::query rejects every name that is empty, has length
\* >= IFNAMSIZ, or contains whitespace or a path separator, and does so
\* before it opens any socket or issues any kernel query.
C32_RejectsBeforeKernel ==
    (lib.op = "query" /\ Rejectable(lib.arg.name)) =>
        /\ ~lib.ret.ok
        /\ lib.ret.sockets = 0
        /\ lib.ret.ioctls = 0

\* C32: query("eth 0") was called and did not succeed.
C32_Witness ==
    /\ lib.op = "query"
    /\ lib.arg.name = <<101, 116, 104, 32, 48>>
    /\ ~lib.ret.ok

\* the attempts of a call that succeeded
Successes(outcomes) == {k \in DOMAIN outcomes : outcomes[k] = "sent"}

\* C34: send_with_retry with max_retries = R makes at most R + 1 send
\* attempts; it returns the first successful result without a further
\* attempt, sleeps the back-off once after each failed attempt that is
\* followed by another, and when every attempt fails returns the error of
\* the last, (R + 1)-th, attempt.
C34_BoundedRetry ==
    lib.op = "send_with_retry" =>
        /\ lib.ret.attempts \in 1..(lib.arg.max_retries + 1)
        /\ lib.ret.result = lib.arg.outcomes[lib.ret.attempts]
        /\ lib.ret.sleeps = lib.ret.attempts - 1
        /\ \A k \in 1..(lib.ret.attempts - 1) : lib.arg.outcomes[k] # "sent"
        /\ Successes(lib.arg.outcomes) # {} =>
              /\ lib.ret.result = "sent"
              /\ \A k \in Successes(lib.arg.outcomes) : lib.ret.attempts <= k
        /\ Successes(lib.arg.outcomes) = {} =>
              /\ lib.ret.attempts = lib.arg.max_retries + 1
              /\ lib.ret.result = "socket_send_failed"

\* C34: with max_retries = 2 the first attempt failed and the second
\* succeeded, the third would have succeeded too.
C34_Witness ==
    /\ lib.op = "send_with_retry" /\ lib.arg.max_retries = 2
    /\ lib.arg.outcomes = <<"socket_send_failed", "sent", "sent">>
    /\ lib.ret.attempts = 2 /\ lib.ret.sleeps = 1

\* C23: every latency observation the ping client records in iteration seq
\* is for a pong whose sequence number equals seq, for every payload size
\* >= 1.
C23_OnlyMatchingPong ==
    nd.mode = "ping" => \A o \in nd.obs : o.of = o.iter

\* C23: the ping client, with a payload too short for a sequence number,
\* waits in its second iteration while the pong of the first is still on
\* its way.
C23_Witness ==
    /\ nd.mode = "ping"
    /\ nd.cfg.payload_size < 9
    /\ nd.pc = "wait"
    /\ nd.seq = 1
    /\ 0 \in nd.pending

\* the payload of a frame by its layout: after 14 octets, or after 18 when
\* octets 12..13 are 0x8100
LayoutTagged(f) == Len(f) >= eth_header_size /\ f[13] = 129 /\ f[14] = 0
LayoutValid(f) == Len(f) >= (IF LayoutTagged(f) THEN eth_vlan_header_size ELSE eth_header_size)
LayoutOffset(f) == IF LayoutTagged(f) THEN eth_vlan_header_size ELSE eth_header_size
LayoutType(f) == f[LayoutOffset(f) - 1] * 256 + f[LayoutOffset(f)]
LayoutPayload(f) == SubSeq(f, LayoutOffset(f) + 1, Len(f))

BenchPing(f) ==
    /\ LayoutValid(f)
    /\ LayoutType(f) = 48879
    /\ LayoutPayload(f) # <<>>
    /\ LayoutPayload(f)[1] = 1

\* the reply to request f under the server's configuration: destination,
\* source and the payload that follows the header the configuration asks for
ReplyTo(f, r, use_vlan) ==
    /\ Len(r) = (IF use_vlan THEN eth_vlan_header_size ELSE eth_header_size) + Len(LayoutPayload(f))
    /\ SubSeq(r, 1, 6) = SubSeq(f, 7, 12)
    /\ SubSeq(r, 7, 12) = LocalMac
    /\ r[(IF use_vlan THEN eth_vlan_header_size ELSE eth_header_size) + 1] = 2
    /\ Tail(SubSeq(r, (IF use_vlan THEN eth_vlan_header_size ELSE eth_header_size) + 1, Len(r)))
            = Tail(LayoutPayload(f))

\* C24: the echo server sends a reply only for a received frame that is
\* valid, has (inner) EtherType 0xBEEF and a non-empty payload whose first
\* byte is ping, and at most one per such frame; the reply has destination
\* = the request's source MAC, source = the local MAC, first payload byte
\* pong and the remaining payload bytes of the request.
C24_EchoReply ==
    nd.mode = "echo" =>
        /\ Len(nd.sent) <= 1
        /\ nd.sent # <<>> => (BenchPing(nd.req) /\ ReplyTo(nd.req, nd.sent[1], nd.cfg.use_vlan))

\* C24: the echo server, configured for VLAN tagging, has answered a tagged
\* ping that carries a second payload byte.
C24_Witness ==
    /\ nd.mode = "echo"
    /\ nd.cfg.use_vlan
    /\ nd.sent # <<>>
    /\ LayoutTagged(nd.req)
    /\ Len(LayoutPayload(nd.req)) = 2

\* C25: once g_running is clear no loop starts a new iteration, at most one
\* wait (the receive timeout, the ping deadline or the send interval) is
\* in progress or begun before the loop returns, and the loop returns.
C25_BoundedCancellation ==
    /\ [](nd.after.tests = 0 /\ nd.after.waits <= 1)
    /\ (~nd.running ~> nd.pc = "returned")

\* C25: the ping client returned after g_running was cleared during its
\* wait for a response, with an interval configured.
C25_Witness ==
    /\ nd.mode = "ping"
    /\ nd.pc = "returned"
    /\ ~nd.running
    /\ nd.after.waits = 1
    /\ nd.cfg.interval > 0
    /\ nd.seq < nd.cfg.count

\* C33: every iteration of the ping client's outer loop that ends, also one
\* whose frame build or send failed, ends with the sequence number
\* advanced by one, so that with count N > 0 the loop ends after at most N
\* iterations.
C33_IterationAdvances ==
    [][(nd.mode = "ping" /\ nd.pc \in {"body", "wait"} /\ nd'.pc \in {"test", "sleep"})
            => nd'.seq = nd.seq + 1]_vars

\* C33: the ping client is in the body of its loop with a VLAN id that
\* build_frame rejects.
C33_Witness ==
    /\ nd.mode = "ping" /\ nd.pc = "body" /\ nd.running
    /\ nd.cfg.count > 0
    /\ ~node_build_frame(MacB, LocalMac, Zeros(nd.cfg.payload_size), nd.cfg).ok

\* C35: run_server never uses its timeout: while no client has connected
\* the server is still blocked in accept after any number of ticks,
\* also more than the configured timeout, with nothing returned; without a
\* client it returns only the error of a system call that failed
\* (create_server, ::accept), never a peer MAC and never a timeout.
C35_AcceptIgnoresTimeout ==
    /\ ac.pc = "accept" => ac.res = "none"
    /\ (ac.pc \in {"send", "returned"} /\ ~ac.pending) =>
            ac.res \in {"socket_creation_failed", "socket_bind_failed", "connection_failed"}
    /\ ac.res = "accepted" => ac.pending
    /\ ac.res # "timeout"
    /\ (ac.pc = "accept" /\ ~ac.pending /\ ac.waited <= MaxClock) => ENABLED AcceptWaits

\* C35: no client has connected, more ticks than the timeout have passed
\* and the server is still in accept.
C35_Witness ==
    /\ ac.pc = "accept" /\ ~ac.pending
    /\ ac.timeout > 0
    /\ ac.waited > ac.timeout
    /\ ac.res = "none"

\* C36: whenever run has returned after the benchmark binary was uploaded
\* to the remote host (upload verification failure, MAC detection
\* failure, interruption, normal completion), cleanup_remote has run
\* first.
C36_CleanupBeforeReturn ==
    (bo.pc = "returned" /\ bo.uploaded) => bo.cleanups > 0

\* C36: run returned std::nullopt after an upload whose verification
\* failed.
C36_Witness ==
    /\ bo.pc = "returned" /\ bo.ret = "nullopt"
    /\ bo.uploaded /\ ~bo.verified
====
